---- MODULE Spec2Model ----
(***************************************************************************)
(* Model of the Harvard opinion-cluster merger of                          *)
(* cl/corpus_importer/management/commands/harvard_merge.py.                *)
(*                                                                         *)
(* Texts are sequences of word tokens; the length of a text is its number  *)
(* of tokens.  The store is the three tables the merger touches (Docket,   *)
(* OpinionCluster, Opinion) and the UPDATE statements issued through their *)
(* managers.  `db` is the committed store every observer                   *)
(* sees, `tx` is the view of the connection that runs the merger: inside   *)
(* `with transaction.atomic()` writes go to `tx` and reach `db` only when  *)
(* the block exits normally.                                               *)
(***************************************************************************)
EXTENDS Integers, Sequences, FiniteSets, TLC

VARIABLES
    db,             \* committed store: [dockets, clusters, opinions]
    tx,             \* store as seen by the merger's connection
    files,          \* cluster id -> Harvard JSON document behind filepath_json_harvard
    arg,            \* start_merger's cluster_id argument ("None" or a cluster id)
    pc,             \* position in start_merger / merge_opinion_clusters
    cluster_ids,    \* start_merger: the list being iterated
    idx,            \* start_merger: position of the current record in cluster_ids
    harvard_data,   \* merge_opinion_clusters: the loaded document, <<>> when none
    clean_dictionary, \* merge_opinion_clusters: the conflict set
    exc,            \* exception in flight ("None" when there is none)
    matches,        \* map_and_merge_opinions: what match_lists returned
    outcome,        \* history: cluster id -> how its merge ended
    pre,            \* history: db when the current record's merge started
    attempted,      \* history: tx when the current record's atomic block was left
    run,            \* history: how many times start_merger has been started
    earlier,        \* history: cluster id -> how its merge last ended in the runs before
    \* cl/lib/email_backends.py
    settings,       \* EMAIL_MAX_TEMP_COUNTER and EMAIL_EMERGENCY_THRESHOLD
    redis,          \* the keys email:temp_counter and email:delivery_attempts
    now,            \* the clock time.time_ns() reads
    sender,         \* sender -> its call of EmailBackend.send_messages
    sent,           \* history: the messages handed to the base backend
    mail_db,        \* the stored messages and the queue of the backoff recipients
    \* cl/users/tasks.py
    failed_email,   \* the FailedEmail row of failed_pk
    task,           \* the send_failed_email task of that row
    deliveries,     \* history: what email.send() did, call by call
    \* cl/recap/management/commands/clean_up_appellate_entries.py
    entries,        \* the Docket and DocketEntry rows
    cleaner,        \* the run of clean_up_duplicate_appellate_entries
    entries0        \* history: the rows when the run started

mailVars == <<settings, redis, now, sender, sent, mail_db>>

taskVars == <<failed_email, task, deliveries>>

cleanVars == <<entries, cleaner, entries0>>

\* The state of the other programs of the repository
others == <<mailVars, taskVars, cleanVars>>

\* No sender, nothing sent
MailIdle ==
    /\ settings = [EMAIL_MAX_TEMP_COUNTER |-> 1, EMAIL_EMERGENCY_THRESHOLD |-> 1]
    /\ redis = [temp_counter |-> <<>>, delivery_attempts |-> {}]
    /\ now = 1
    /\ sender = <<>>
    /\ sent = <<>>
    /\ mail_db = [stored |-> <<>>, queue |-> <<>>]

\* No task
TaskIdle ==
    /\ failed_email = <<>>
    /\ task = <<>>
    /\ deliveries = <<>>

\* No run
CleanIdle ==
    /\ entries = <<>>
    /\ cleaner = <<>>
    /\ entries0 = <<>>

OthersIdle == MailIdle /\ TaskIdle /\ CleanIdle

\* The state of the merger
mergerVars == <<db, tx, files, arg, pc, cluster_ids, idx, harvard_data,
                clean_dictionary, exc, matches, outcome, pre, attempted, run, earlier>>

vars == <<mergerVars, others>>


-----------------------------------------------------------------------------
(* Bounds *)

NumClusters == 2
MaxOpinions == 2
MaxRuns == 2

Clusters == 1..NumClusters

-----------------------------------------------------------------------------
(* Texts and the collaborators that read them *)

EmptyText == <<>>

Truthy(v) == v # EmptyText

\* Last names the judge-name extractor recognises, with their normalised
\* (lower-case) form; every other token (initials, first names) is dropped.
LowerOf == [t \in {"Doe", "Jones", "Smith"} |->
              CASE t = "Doe" -> "doe" [] t = "Jones" -> "jones" [] t = "Smith" -> "smith"]

TitleOf == [t \in {"doe", "jones", "smith"} |->
              CASE t = "doe" -> "Doe" [] t = "jones" -> "Jones" [] t = "smith" -> "Smith"]

TokensOf(text) == {text[i] : i \in 1..Len(text)}

\* sorted(): the alphabetical order of the normalised last names
NameOrder == <<"doe", "jones", "smith">>

SortedNames(S) ==
    LET keep == {i \in 1..Len(NameOrder) : NameOrder[i] \in S}
        F[i \in 0..Len(NameOrder)] ==
            IF i = 0 THEN <<>>
            ELSE IF i \in keep THEN Append(F[i - 1], NameOrder[i]) ELSE F[i - 1]
    IN F[Len(NameOrder)]

\* extract_judge_last_name: text -> list of normalised last names, in the order
\* in which the text names them
ExtractJudgeLastName(text) ==
    LET names == SelectSeq(text, LAMBDA t : t \in DOMAIN LowerOf)
    IN [i \in 1..Len(names) |-> LowerOf[names[i]]]

\* titlecase: capitalises every word it knows in lower case
Titlecase(text) ==
    [i \in 1..Len(text) |-> IF text[i] \in DOMAIN TitleOf THEN TitleOf[text[i]] ELSE text[i]]

\* harmonize: normalises the "versus" abbreviation of a case name
Harmonize(text) ==
    [i \in 1..Len(text) |-> IF text[i] \in {"vs.", "V."} THEN "v." ELSE text[i]]

\* clean_docket_number: drops the "No." prefix token
CleanDocketNumber(text) ==
    LET F[i \in 0..Len(text)] ==
            IF i = 0 THEN <<>>
            ELSE IF text[i] = "No." THEN F[i - 1] ELSE Append(F[i - 1], text[i])
    IN F[Len(text)]

\* Python's `a in b` on strings: a is a contiguous part of b
IsSubstring(a, b) ==
    \E s \in 0..Len(b) : s + Len(a) <= Len(b) /\ \A i \in 1..Len(a) : b[s + i] = a[i]

Count(text, t) == Cardinality({i \in 1..Len(text) : text[i] = t})

\* get_cosine_similarity(a, b) compared with a threshold num/den, on the token
\* frequency vectors: cos > num/den  <=>  den^2 * dot^2 > num^2 * |a|^2 * |b|^2.
\* The similarity of an empty text is 0.
RECURSIVE DotOver(_, _, _)
DotOver(a, b, T) ==
    IF T = {} THEN 0
    ELSE LET t == CHOOSE y \in T : TRUE
         IN Count(a, t) * Count(b, t) + DotOver(a, b, T \ {t})

Dot(a, b) == DotOver(a, b, TokensOf(a) \cap TokensOf(b))

CosineAbove(a, b, num, den) ==
    /\ Dot(a, a) * Dot(b, b) > 0
    /\ den * den * Dot(a, b) * Dot(a, b) > num * num * Dot(a, a) * Dot(b, b)

CosineBelow(a, b, num, den) ==
    \/ Dot(a, a) * Dot(b, b) = 0
    \/ den * den * Dot(a, b) * Dot(a, b) < num * num * Dot(a, a) * Dot(b, b)

\* validate_dt: a date text of three parts is exact, a shorter one is padded
\* and flagged approximate
ValidateDt(text) ==
    [date |-> IF Len(text) >= 3 THEN SubSeq(text, 1, 3)
              ELSE text \o [i \in 1..(3 - Len(text)) |-> "01"],
     is_approximate |-> Len(text) < 3]

-----------------------------------------------------------------------------
(* The store and the imported documents *)

\* Docket.HARVARD, one bit of the docket's source value
HARVARD == 16

\* "Harvard" in the label of a source value of Docket.SOURCE_CHOICES
IncludesHarvard(source) == (source \div HARVARD) % 2 = 1

\* Attributes of an OpinionCluster that the merger reads with getattr
ClusterAttrs == {"case_name", "case_name_full", "judges", "attorneys", "syllabus",
                 "disposition", "other_dates", "cross_reference", "date_filed"}

\* Keys of the dictionary fetch_non_harvard_data builds, in insertion order
AuxOrder == <<"judges", "attorneys", "disposition", "otherdate", "seealso", "syllabus">>

\* A function as a Python dict: lookup of a missing key is a KeyError
HasKey(d, k) == k \in DOMAIN d

\* dict.pop(old) stored under new
RenameKey(d, old, new) ==
    IF old \in DOMAIN d
    THEN [k \in (DOMAIN d \ {old}) \cup {new} |-> IF k = new THEN d[old] ELSE d[k]]
    ELSE d

NoDict == [k \in {} |-> <<>>]

\* read_json: the document behind filepath_json_harvard, None (no keys) without one
ReadJsonOf(st, fs, c) ==
    IF st.clusters[c].filepath_json_harvard \notin {"Null", ""} THEN fs[c] ELSE NoDict

-----------------------------------------------------------------------------
(* Case-body markup: a sequence of elements [tag, author, text]; an <opinion>
   element carries the texts of its <author> sub-elements *)

ElementsOf(markup, tag) == SelectSeq(markup, LAMBDA e : e.tag = tag)

\* x.text for x in soup.find_all(tag)
TextsOf(markup, tag) ==
    LET es == ElementsOf(markup, tag) IN [i \in 1..Len(es) |-> es[i].text]

\* x.text for x in soup.find_all("author")
AuthorTextsOf(markup) ==
    LET es == ElementsOf(markup, "opinion")
        F[i \in 0..Len(es)] == IF i = 0 THEN <<>> ELSE F[i - 1] \o es[i].author
    IN F[Len(es)]

\* parse_extra_fields for one field: the texts of its elements, joined
JoinedText(markup, tag) ==
    LET ts == TextsOf(markup, tag)
        F[i \in 0..Len(ts)] == IF i = 0 THEN <<>> ELSE F[i - 1] \o ts[i]
    IN F[Len(ts)]

\* fetch_non_harvard_data: the auxiliary fields of the case body, empty ones dropped
FetchNonHarvardData(hd) ==
    LET markup == hd["casebody"]
        lists == TextsOf(markup, "judges") \o AuthorTextsOf(markup)
        names == UNION {TokensOf(ExtractJudgeLastName(lists[i])) : i \in 1..Len(lists)}
        all_data == [k \in TokensOf(AuxOrder) |->
                        IF k = "judges" THEN Titlecase(SortedNames(names))
                        ELSE JoinedText(markup, k)]
    IN [k \in {x \in DOMAIN all_data : Truthy(all_data[x])} |-> all_data[k]]

-----------------------------------------------------------------------------
(* Opinion Aligner *)

\* fetch_cl_opinion_content: one text per sub opinion
FetchClOpinionContent(sub_opinions) ==
    [i \in 1..Len(sub_opinions) |-> sub_opinions[i].plain_text]

\* match_lists: what it may return for n imported and n existing opinions, a
\* dict from existing-opinion index to imported-opinion index covering all, some
\* or none of the indices
MatchLists(n) ==
    UNION {{m \in [S -> 1..n] : \A a, b \in S : m[a] = m[b] => a = b} : S \in SUBSET (1..n)}

\* "crashes without a sub opinion": match_lists raises on two empty lists
MatchListsCrashes(n) == n = 0

MinOf(S) == CHOOSE x \in S : \A y \in S : x <= y

\* The loop over matches.items(), in ascending key order; an exception leaves
\* the opinions saved before it in the transaction
RECURSIVE MergeMatched(_, _, _, _)
MergeMatched(ops, harvard_opinions, mapping, todo) ==
    IF todo = {} THEN [ops |-> ops, exc |-> "None"]
    ELSE LET k == MinOf(todo)
             v == mapping[k]
             op == ops[k]
             hvd == harvard_opinions[v].author
             xml == <<harvard_opinions[v]>>
         IN IF op.author_str # EmptyText /\ op.author = "None"
            THEN IF hvd = <<>>
                 THEN [ops |-> ops, exc |-> "IndexError"]
                 ELSE IF ExtractJudgeLastName(op.author_str) # ExtractJudgeLastName(hvd[1])
                 THEN [ops |-> ops, exc |-> "AuthorException"]
                 ELSE MergeMatched(
                        [ops EXCEPT ![k] = [op EXCEPT !.author_str = hvd[1],
                                                      !.xml_harvard = xml]],
                        harvard_opinions, mapping, todo \ {k})
            ELSE MergeMatched([ops EXCEPT ![k] = [op EXCEPT !.xml_harvard = xml]],
                              harvard_opinions, mapping, todo \ {k})

\* Opinion.objects.create(xml_harvard=case_body, cluster=..., type="010combined")
CombinedOpinion(case_body) ==
    [author_str |-> EmptyText, author |-> "None", plain_text |-> EmptyText,
     xml_harvard |-> case_body, type |-> "010combined"]

\* Mutant of MapAndMergeOpinions: an empty mapping is not told from a mapping
MapAndMergeOpinionsNoMapping(st, c, hd, mapping) ==
    LET case_body == hd["casebody"]
        sub_opinions == st.opinions[c]
        harvard_opinions == ElementsOf(case_body, "opinion")
        r == MergeMatched(sub_opinions, harvard_opinions, mapping, DOMAIN mapping)
    IN IF Len(harvard_opinions) # Len(sub_opinions)
       THEN [st |-> [st EXCEPT !.opinions[c] = Append(@, CombinedOpinion(case_body))],
             exc |-> "None"]
       ELSE IF MatchListsCrashes(Len(sub_opinions))
       THEN [st |-> st, exc |-> "ValueError"]
       ELSE [st |-> [st EXCEPT !.opinions[c] = r.ops], exc |-> r.exc]

\* map_and_merge_opinions, given what match_lists returns when it is called
MapAndMergeOpinions(st, c, hd, mapping) ==
    IF ~HasKey(hd, "casebody") THEN [st |-> st, exc |-> "KeyError"]
    ELSE
    LET case_body == hd["casebody"]
        sub_opinions == st.opinions[c]
        harvard_opinions == ElementsOf(case_body, "opinion")
        cl_opinions == FetchClOpinionContent(sub_opinions)
        create == [st EXCEPT !.opinions[c] = Append(@, CombinedOpinion(case_body))]
    IN IF Len(harvard_opinions) # Len(cl_opinions)
       THEN [st |-> create, exc |-> "None"]
       ELSE IF MatchListsCrashes(Len(cl_opinions))
       THEN [st |-> st, exc |-> "ValueError"]
       ELSE IF DOMAIN mapping = {}
       THEN [st |-> create, exc |-> "None"]
       ELSE LET r == MergeMatched(sub_opinions, harvard_opinions, mapping, DOMAIN mapping)
            IN [st |-> [st EXCEPT !.opinions[c] = r.ops], exc |-> r.exc]

-----------------------------------------------------------------------------
(* Partition of the auxiliary fields *)

\* OpinionCluster.objects.filter(id=c).update(**update_dict): one UPDATE statement
\* that sets the fields of update_dict on the row; `updates` keeps the
\* statements the connection has issued
UpdateClusterFields(st, c, update_dict) ==
    [st EXCEPT !.clusters[c] = [k \in DOMAIN @ |->
                                   IF k \in DOMAIN update_dict THEN update_dict[k] ELSE @[k]],
               !.updates = Append(@, [model |-> "OpinionCluster", id |-> c,
                                      fields |-> DOMAIN update_dict])]

\* OpinionCluster.objects.filter(id=c).update(**{field: value})
UpdateCluster(st, c, field, value) ==
    UpdateClusterFields(st, c, [k \in {field} |-> value])

\* Mutant of CombineItem: a differing value overwrites the record's
CombineItemOverwrites(st, c, opinion_cluster, key, value, dict) ==
    IF value # opinion_cluster[key]
    THEN [st |-> UpdateCluster(st, c, key, value), dict |-> dict]
    ELSE [st |-> st, dict |-> dict]

\* The body of the loop of combine_non_overlapping_data for one item
CombineItem(st, c, opinion_cluster, key, value, dict) ==
    LET cl_value == opinion_cluster[key]
    IN IF ~Truthy(cl_value)
       THEN [st |-> UpdateCluster(st, c, key, value), dict |-> dict]
       ELSE IF value # cl_value
       THEN [st |-> st,
             dict |-> [k \in DOMAIN dict \cup {key} |->
                          IF k = key THEN <<value, cl_value>> ELSE dict[k]]]
       ELSE [st |-> st, dict |-> dict]

\* The loop of combine_non_overlapping_data over all_data.items(): getattr of a
\* name the cluster does not have is an AttributeError
RECURSIVE CombineLoop(_, _, _, _, _, _)
CombineLoop(st, c, opinion_cluster, all_data, i, dict) ==
    IF i > Len(AuxOrder) THEN [st |-> st, exc |-> "None", dict |-> dict]
    ELSE LET key == AuxOrder[i] IN
         IF key \notin DOMAIN all_data
         THEN CombineLoop(st, c, opinion_cluster, all_data, i + 1, dict)
         ELSE IF key \notin ClusterAttrs
         THEN [st |-> st, exc |-> "AttributeError", dict |-> dict]
         ELSE LET r == CombineItem(st, c, opinion_cluster, key, all_data[key], dict)
              IN CombineLoop(r.st, c, opinion_cluster, all_data, i + 1, r.dict)

\* combine_non_overlapping_data
CombineNonOverlappingData(st, c, hd) ==
    IF ~HasKey(hd, "casebody") THEN [st |-> st, exc |-> "KeyError", dict |-> NoDict]
    ELSE LET r == CombineLoop(st, c, st.clusters[c], FetchNonHarvardData(hd), 1, NoDict)
         IN [r EXCEPT !.dict = RenameKey(RenameKey(@, "otherdate", "other_dates"),
                                         "seealso", "cross_reference")]

-----------------------------------------------------------------------------
(* Field Reconciler *)

\* Mutant of MergeLongFields: a similarity of exactly 0.9 counts as different
MergeLongFieldsInclusive(st, c, field_name, overlapping_data) ==
    LET harvard == overlapping_data[1]
        cl_data == overlapping_data[2]
    IN IF ~CosineAbove(harvard, cl_data, 9, 10) /\ Len(harvard) > Len(cl_data)
       THEN [st |-> UpdateCluster(st, c, field_name, harvard), exc |-> "None"]
       ELSE [st |-> st, exc |-> "None"]

\* merge_long_fields
MergeLongFields(st, c, field_name, overlapping_data) ==
    LET harvard == overlapping_data[1]
        cl_data == overlapping_data[2]
    IN IF CosineBelow(harvard, cl_data, 9, 10) /\ Len(harvard) > Len(cl_data)
       THEN [st |-> UpdateCluster(st, c, field_name, harvard), exc |-> "None"]
       ELSE [st |-> st, exc |-> "None"]

\* Mutant of MergeJudges: equal sets of last names count as a superset
MergeJudgesNotStrict(st, c, overlapping_data) ==
    LET harvard == overlapping_data[1]
        cl_data == overlapping_data[2]
        cl_clean == TokensOf(ExtractJudgeLastName(cl_data))
        harvard_clean == TokensOf(ExtractJudgeLastName(harvard))
        judges == Titlecase(ExtractJudgeLastName(harvard))
    IN IF cl_clean \subseteq harvard_clean
       THEN [st |-> UpdateCluster(st, c, "judges", judges), exc |-> "None"]
       ELSE IF harvard_clean \cap cl_clean = {}
       THEN [st |-> st, exc |-> "JudgeException"]
       ELSE [st |-> st, exc |-> "None"]

\* merge_judges
MergeJudges(st, c, overlapping_data) ==
    LET harvard == overlapping_data[1]
        cl_data == overlapping_data[2]
        cl_clean == TokensOf(ExtractJudgeLastName(cl_data))
        harvard_clean == TokensOf(ExtractJudgeLastName(harvard))
        judges == Titlecase(ExtractJudgeLastName(harvard))
    IN IF cl_clean \subseteq harvard_clean /\ harvard_clean # cl_clean
       THEN [st |-> UpdateCluster(st, c, "judges", judges), exc |-> "None"]
       ELSE IF harvard_clean \cap cl_clean = {}
       THEN [st |-> st, exc |-> "JudgeException"]
       ELSE [st |-> st, exc |-> "None"]

\* merge_dates
MergeDates(st, c, field_name, overlapping_data) ==
    LET harvard == ValidateDt(overlapping_data[1])
        cluster == st.clusters[c]
    IN IF cluster.date_filed_is_approximate /\ ~harvard.is_approximate
       THEN [st |-> UpdateCluster(st, c, field_name, harvard.date), exc |-> "None"]
       ELSE [st |-> st, exc |-> "None"]

\* Mutant of MergeStrings: an imported value of equal length wins
MergeStringsNotStrict(st, c, field_name, overlapping_data) ==
    LET harvard == overlapping_data[1]
        cl_data == overlapping_data[2]
    IN IF Len(harvard) >= Len(cl_data)
       THEN [st |-> UpdateCluster(st, c, field_name, harvard), exc |-> "None"]
       ELSE [st |-> st, exc |-> "None"]

\* merge_strings
MergeStrings(st, c, field_name, overlapping_data) ==
    LET harvard == overlapping_data[1]
        cl_data == overlapping_data[2]
    IN IF Len(harvard) > Len(cl_data)
       THEN [st |-> UpdateCluster(st, c, field_name, harvard), exc |-> "None"]
       ELSE [st |-> st, exc |-> "None"]

LongFields == {"syllabus", "summary", "history", "headnotes", "correction",
               "cross_reference", "disposition"}

\* The dispatch of merge_overlapping_data for one field of the conflict set
MergeField(st, c, field_name, overlapping_data) ==
    IF field_name \in LongFields THEN MergeLongFields(st, c, field_name, overlapping_data)
    ELSE IF field_name \in {"date_filed", "other_dates"}
    THEN MergeDates(st, c, field_name, overlapping_data)
    ELSE IF field_name = "judges" THEN MergeJudges(st, c, overlapping_data)
    ELSE IF field_name = "attorneys" THEN MergeStrings(st, c, field_name, overlapping_data)
    ELSE [st |-> st, exc |-> "None"]

\* Keys of the conflict set in the order combine_non_overlapping_data leaves them
DictOrder == <<"judges", "attorneys", "disposition", "syllabus", "other_dates",
               "cross_reference">>

RECURSIVE MergeFields(_, _, _, _)
MergeFields(st, c, dict, i) ==
    IF i > Len(DictOrder) THEN [st |-> st, exc |-> "None"]
    ELSE IF DictOrder[i] \notin DOMAIN dict THEN MergeFields(st, c, dict, i + 1)
    ELSE LET r == MergeField(st, c, DictOrder[i], dict[DictOrder[i]])
         IN IF r.exc # "None" THEN r ELSE MergeFields(r.st, c, dict, i + 1)

\* merge_overlapping_data: returns at once when the conflict set is not empty
MergeOverlappingData(st, c, dict) ==
    IF DOMAIN dict # {} THEN [st |-> st, exc |-> "None"]
    ELSE MergeFields(st, c, dict, 1)

-----------------------------------------------------------------------------
(* Docket number, case names, provenance *)

\* Docket.objects.update(docket_number=...): no filter, every docket row
UpdateDockets(st, number) ==
    [st EXCEPT !.dockets = [d \in DOMAIN st.dockets |->
                               [st.dockets[d] EXCEPT !.docket_number = number]],
               !.updates = Append(@, [model |-> "Docket", id |-> 0,
                                      fields |-> {"docket_number"}])]

\* Mutant of MergeDocketNumbers: a record without docket number is not told apart
MergeDocketNumbersUnguarded(st, c, harvard_docket_number) ==
    LET cl_docket_number == st.dockets[st.clusters[c].docket].docket_number
    IN IF IsSubstring(cl_docket_number, harvard_docket_number)
       THEN UpdateDockets(st, harvard_docket_number)
       ELSE IF /\ CosineAbove(CleanDocketNumber(cl_docket_number),
                              CleanDocketNumber(harvard_docket_number), 8, 10)
               /\ Len(harvard_docket_number) > Len(cl_docket_number)
       THEN UpdateDockets(st, harvard_docket_number)
       ELSE st

\* merge_docket_numbers
MergeDocketNumbers(st, c, harvard_docket_number) ==
    LET cl_docket_number == st.dockets[st.clusters[c].docket].docket_number
    IN IF ~Truthy(cl_docket_number) THEN st
       ELSE IF IsSubstring(cl_docket_number, harvard_docket_number)
       THEN UpdateDockets(st, harvard_docket_number)
       ELSE IF /\ CosineAbove(CleanDocketNumber(cl_docket_number),
                              CleanDocketNumber(harvard_docket_number), 8, 10)
               /\ Len(harvard_docket_number) > Len(cl_docket_number)
       THEN UpdateDockets(st, harvard_docket_number)
       ELSE st

\* Mutant of TakeHarvard: any imported name replaces the record's
TakeHarvardAnyLength(cl_value, harvard_value) == Truthy(harvard_value)

\* merge_case_names, for one of the two names: the imported one is selected
TakeHarvard(cl_value, harvard_value) ==
    \/ ~Truthy(cl_value) /\ Truthy(harvard_value)
    \/ /\ Truthy(cl_value) /\ Truthy(harvard_value)
       /\ Len(harvard_value) > Len(cl_value)

\* Mutant of SwapFields: the names are never swapped
SwapFieldsNever(case_name, case_name_full) == FALSE

\* merge_case_names: the selected names are swapped
SwapFields(case_name, case_name_full) ==
    /\ Truthy(case_name_full) /\ Truthy(case_name)
    /\ Len(case_name) > Len(case_name_full)

\* merge_case_names
MergeCaseNames(st, c, hd) ==
    IF ~HasKey(hd, "name_abbreviation") \/ ~HasKey(hd, "name")
    THEN [st |-> st, exc |-> "KeyError"]
    ELSE
    LET cluster == st.clusters[c]
        harvard_case_name == Harmonize(hd["name_abbreviation"])
        harvard_case_name_full == Harmonize(hd["name"])
        cl_name == Harmonize(cluster.case_name)
        cl_full == Harmonize(cluster.case_name_full)
        take_full == TakeHarvard(cl_full, harvard_case_name_full)
        take_name == TakeHarvard(cl_name, harvard_case_name)
        cluster_case_name_full == IF take_full THEN harvard_case_name_full ELSE cl_full
        cluster_case_name == IF take_name THEN harvard_case_name ELSE cl_name
        swap == SwapFields(cluster_case_name, cluster_case_name_full)
        update_dict ==
            [k \in {f \in {"case_name", "case_name_full"} :
                       \/ swap
                       \/ f = "case_name" /\ take_name
                       \/ f = "case_name_full" /\ take_full} |->
                IF swap
                THEN IF k = "case_name" THEN cluster_case_name_full ELSE cluster_case_name
                ELSE IF k = "case_name" THEN cluster_case_name ELSE cluster_case_name_full]
    IN [st |-> IF DOMAIN update_dict # {} THEN UpdateClusterFields(st, c, update_dict)
               ELSE st,
        exc |-> "None"]

\* update_docket
UpdateDocket(st, c) ==
    LET d == st.clusters[c].docket
    IN [st EXCEPT !.dockets[d].source = HARVARD + st.dockets[d].source]

-----------------------------------------------------------------------------
(* Initial stores and imported documents *)

Element(tag, author, text) == [tag |-> tag, author |-> author, text |-> text]

\* The <opinion> segments of a case body, one per entry of `authors` (the texts
\* of the segment's <author> sub-elements); segment i has a body of i words
Segments(authors) ==
    [i \in 1..Len(authors) |-> Element("opinion", authors[i], [j \in 1..i |-> "w"])]

\* One element per non-empty text of `fields` (a function from tag to text)
Extras(fields) ==
    LET F[i \in 0..Len(AuxOrder)] ==
            IF i = 0 THEN <<>>
            ELSE IF AuxOrder[i] \in DOMAIN fields /\ Truthy(fields[AuxOrder[i]])
                 THEN Append(F[i - 1], Element(AuxOrder[i], <<>>, fields[AuxOrder[i]]))
                 ELSE F[i - 1]
    IN F[Len(AuxOrder)]

Document(authors, fields, docket_number) ==
    [casebody |-> Segments(authors) \o Extras(fields),
     docket_number |-> docket_number,
     name |-> <<"Jane", "Roe", "vs.", "Henry", "Wade">>,
     name_abbreviation |-> <<"Roe", "vs.", "Wade">>]

\* A document without its docket_number key
Malformed(doc) == [k \in DOMAIN doc \ {"docket_number"} |-> doc[k]]

OpinionRow(author_str, author) ==
    [author_str |-> author_str, author |-> author, plain_text |-> <<"text">>,
     xml_harvard |-> <<>>, type |-> "020lead"]

ClusterRow(c, filepath, judges) ==
    [docket |-> c, case_name |-> <<"Roe", "v.", "Wade">>, case_name_full |-> EmptyText,
     judges |-> judges, attorneys |-> EmptyText, syllabus |-> EmptyText,
     disposition |-> EmptyText, other_dates |-> EmptyText, cross_reference |-> EmptyText,
     date_filed |-> <<"1990", "01", "02">>, date_filed_is_approximate |-> FALSE,
     filepath_json_harvard |-> filepath]

DocketRow(docket_number, source) == [docket_number |-> docket_number, source |-> source]

\* docket number of the docket of cluster c before any merge
DocketNo(c) == <<"12", ToString(c)>>

\* imported docket number that extends DocketNo(c)
ImportedNo(c) == <<"No.", "12", ToString(c), "CV">>

\* A scenario is one cluster with its docket, opinions and imported document
Scenario(cluster, docket, opinions, file) ==
    [cluster |-> cluster, docket |-> docket, opinions |-> opinions, file |-> file]

PlainOpinion == OpinionRow(EmptyText, "None")
FreeTextOpinion == OpinionRow(<<"J.", "Smith">>, "None")
ResolvedOpinion == OpinionRow(<<"J.", "Smith">>, "person")

OpinionKinds == {PlainOpinion, FreeTextOpinion, ResolvedOpinion}

\* texts of the <author> sub-elements of one imported segment
SegmentAuthors == {<<>>, <<<<"John", "Smith">>>>, <<<<"John", "Doe">>>>}

SeqsUpTo(S, n) == UNION {[1..k -> S] : k \in 0..n}

RECAP == 1

DefaultScenario(c) ==
    Scenario(ClusterRow(c, "harvard.json", EmptyText), DocketRow(DocketNo(c), RECAP),
             <<PlainOpinion>>, Document(<<<<>>>>, NoDict, ImportedNo(c)))

\* Opinions and imported segments of every shape, other fields fixed
OpinionScenarios(c) ==
    {Scenario(ClusterRow(c, "harvard.json", EmptyText), DocketRow(DocketNo(c), RECAP),
              ops, Document(authors, NoDict, ImportedNo(c))) :
        ops \in SeqsUpTo(OpinionKinds, MaxOpinions),
        authors \in SeqsUpTo(SegmentAuthors, MaxOpinions)}

\* Judges, docket numbers, provenance and auxiliary fields of every shape, one
\* opinion
FieldScenarios(c) ==
    {Scenario(ClusterRow(c, "harvard.json", judges), DocketRow(number, source),
              <<PlainOpinion>>,
              Document(<<<<>>>>, [k \in {"judges", aux} |->
                                    IF k = "judges" THEN tags ELSE <<"text">>], hnumber)) :
        judges \in {EmptyText, <<"Smith">>},
        tags \in {EmptyText, <<"Jones">>, <<"Jones", "and", "Smith">>},
        number \in {EmptyText, DocketNo(c)},
        hnumber \in {ImportedNo(c), <<"77">>},
        source \in {RECAP, RECAP + HARVARD},
        aux \in {"judges", "attorneys", "otherdate"}}

\* The cluster field that holds what the imported data has under `key`
RecordField(key) ==
    IF key = "otherdate" THEN "other_dates"
    ELSE IF key = "seealso" THEN "cross_reference"
    ELSE key

\* Values of an auxiliary field, on the record or imported; the empty one is a
\* field the record does not have a value for, or an element the case body lacks
AuxTexts == {EmptyText, <<"a">>, <<"a", "b">>}

\* One auxiliary field with every pair of existing and imported value
AuxScenarios(c) ==
    {Scenario([ClusterRow(c, "harvard.json", EmptyText) EXCEPT ![RecordField(key)] = cl_value],
              DocketRow(DocketNo(c), RECAP), <<PlainOpinion>>,
              Document(<<<<>>>>, [k \in {key} |-> value], ImportedNo(c))) :
        key \in {"attorneys", "disposition", "seealso", "syllabus"},
        cl_value \in AuxTexts,
        value \in AuxTexts}

\* Docket numbers of the record: none, two of the usual shape, one that ends in
\* its "No." (its normalised form is one token)
ExistingNumbers(c) == {EmptyText, DocketNo(c), DocketNo(c) \o <<"CV">>, <<"7", "No.">>}

\* Imported docket numbers: extensions of the record's, reorderings of it
\* (similar, not a superstring) that are longer, as long and shorter, unrelated
\* ones, and one whose similarity to "7 No." is exactly 0.8
ImportedNumbers(c) ==
    {ImportedNo(c),
     <<"No.", "12", "CV", ToString(c), "A">>,
     <<"CV", ToString(c), "12">>,
     <<ToString(c), "12">>,
     <<"12">>,
     <<"77">>,
     <<"7", "7", "7", "7", "B", "B", "B">>}

\* Every pair of existing and imported docket number
DocketScenarios(c) ==
    {Scenario(ClusterRow(c, "harvard.json", EmptyText), DocketRow(number, RECAP),
              <<PlainOpinion>>, Document(<<<<>>>>, NoDict, hnumber)) :
        number \in ExistingNumbers(c),
        hnumber \in ImportedNumbers(c)}

\* Short case names: none, one of three words, one of four
ShortNames == {EmptyText, <<"Doe", "vs.", "Wade">>, <<"Jane", "Doe", "vs.", "Wade">>}

\* Full case names: none, one of three words, one of five
FullNames == {EmptyText, <<"Doe", "vs.", "Wade">>, <<"Jane", "Doe", "vs.", "Henry", "Wade">>}

\* Case names of every shape, on the record and imported; the record may have a
\* short name longer than every full name
NameScenarios(c) ==
    {Scenario([ClusterRow(c, "harvard.json", EmptyText) EXCEPT
                   !.case_name = cl_name, !.case_name_full = cl_full],
              DocketRow(DocketNo(c), RECAP), <<PlainOpinion>>,
              [Document(<<<<>>>>, NoDict, ImportedNo(c)) EXCEPT
                   !.name_abbreviation = name, !.name = full]) :
        cl_name \in {EmptyText, <<"Roe", "v.", "Wade">>,
                     <<"Jane", "Roe", "vs.", "Henry", "Wade", "et", "al.">>},
        cl_full \in {EmptyText, <<"Roe", "v.", "Wade">>,
                     <<"Jane", "Roe", "v.", "Henry", "Wade">>},
        name \in ShortNames,
        full \in FullNames}

\* The records a batch meets
BatchScenarios(c) ==
    LET doc == Document(<<<<<<"John", "Doe">>>>>>, NoDict, ImportedNo(c))
        row(filepath) == ClusterRow(c, filepath, EmptyText)
    IN {Scenario(row("Null"), DocketRow(DocketNo(c), RECAP), <<PlainOpinion>>, NoDict),
        Scenario(row(""), DocketRow(DocketNo(c), RECAP), <<PlainOpinion>>, NoDict),
        Scenario(row("harvard.json"), DocketRow(DocketNo(c), RECAP), <<PlainOpinion>>, doc),
        Scenario(row("harvard.json"), DocketRow(DocketNo(c), RECAP), <<FreeTextOpinion>>,
                 doc),
        Scenario(row("harvard.json"), DocketRow(DocketNo(c), RECAP), <<PlainOpinion>>,
                 Malformed(doc)),
        Scenario(row("harvard.json"), DocketRow(DocketNo(c), RECAP + HARVARD),
                 <<PlainOpinion>>, doc)}

StoreOf(sc) ==
    [dockets |-> [c \in Clusters |-> sc[c].docket],
     clusters |-> [c \in Clusters |-> sc[c].cluster],
     opinions |-> [c \in Clusters |-> sc[c].opinions],
     updates |-> <<>>]

MergerInitWith(sc, a) ==
    /\ db = StoreOf(sc)
    /\ tx = StoreOf(sc)
    /\ pre = StoreOf(sc)
    /\ attempted = StoreOf(sc)
    /\ matches = NoDict
    /\ files = [c \in Clusters |-> sc[c].file]
    /\ arg = a
    /\ pc = "start"
    /\ cluster_ids = <<>>
    /\ idx = 0
    /\ harvard_data = NoDict
    /\ clean_dictionary = NoDict
    /\ exc = "None"
    /\ outcome = [c \in Clusters |-> "NotRun"]
    /\ run = 1
    /\ earlier = [c \in Clusters |-> "NotRun"]

InitWith(sc, a) == MergerInitWith(sc, a) /\ OthersIdle

\* The merger before a run that no other program waits for
MergerIdle == MergerInitWith([c \in Clusters |-> DefaultScenario(c)], 0)

\* One named record with opinions of every shape
InitOpinions ==
    \E s \in OpinionScenarios(1) :
        InitWith([c \in Clusters |-> IF c = 1 THEN s ELSE DefaultScenario(c)], 1)

\* One named record with fields of every shape
InitFields ==
    \E s \in FieldScenarios(1) :
        InitWith([c \in Clusters |-> IF c = 1 THEN s ELSE DefaultScenario(c)], 1)

\* One named record with one auxiliary field of every shape
InitAux ==
    \E s \in AuxScenarios(1) :
        InitWith([c \in Clusters |-> IF c = 1 THEN s ELSE DefaultScenario(c)], 1)

\* One named record with docket numbers of every shape
InitDockets ==
    \E s \in DocketScenarios(1) :
        InitWith([c \in Clusters |-> IF c = 1 THEN s ELSE DefaultScenario(c)], 1)

\* One named record with case names of every shape
InitNames ==
    \E s \in NameScenarios(1) :
        InitWith([c \in Clusters |-> IF c = 1 THEN s ELSE DefaultScenario(c)], 1)

\* The clusters of `sc`, all of the docket of the first (OpinionCluster.docket
\* is a foreign key: a docket has any number of clusters)
OneDocket(sc) == [c \in Clusters |-> [sc[c] EXCEPT !.cluster.docket = 1]]

\* Any records, each of its own docket or all of one docket, merged as a batch
\* (no cluster id) or one of them by name
InitBatch ==
    \E sc \in [Clusters -> UNION {BatchScenarios(c) : c \in Clusters}] :
    \E a \in {0} \cup Clusters :
        /\ \A c \in Clusters : sc[c] \in BatchScenarios(c)
        /\ InitWith(sc, a) \/ InitWith(OneDocket(sc), a)

Init == InitOpinions \/ InitFields \/ InitAux \/ InitDockets \/ InitNames \/ InitBatch

-----------------------------------------------------------------------------
(* start_merger and merge_opinion_clusters, step by step *)

\* The cluster ids of the queryset of start_merger, in id order
Eligible(st) ==
    LET keep == {c \in Clusters :
                    /\ ~IncludesHarvard(st.dockets[st.clusters[c].docket].source)
                    /\ st.clusters[c].filepath_json_harvard # "Null"}
        F[i \in 0..NumClusters] ==
            IF i = 0 THEN <<>> ELSE IF i \in keep THEN Append(F[i - 1], i) ELSE F[i - 1]
    IN F[NumClusters]

Current == cluster_ids[idx]

\* start_merger up to its loop
StartMerger ==
    /\ pc = "start"
    /\ cluster_ids' = IF arg # 0 THEN <<arg>> ELSE Eligible(db)
    /\ idx' = 1
    /\ pc' = "loop"
    /\ UNCHANGED <<others, run, earlier, db, tx, files, arg, harvard_data, clean_dictionary,
                   exc, matches, outcome, pre, attempted>>

\* for cluster_id in cluster_ids: merge_opinion_clusters reads the document
ReadJson ==
    /\ pc = "loop"
    /\ idx <= Len(cluster_ids)
    /\ harvard_data' = ReadJsonOf(db, files, Current)
    /\ pre' = db
    /\ attempted' = db
    /\ tx' = db
    /\ clean_dictionary' = NoDict
    /\ matches' = NoDict
    /\ pc' = "read"
    /\ UNCHANGED <<others, run, earlier, db, files, arg, cluster_ids, idx, exc, outcome>>

\* if harvard_data: ... else: "No Harvard json for cluster"
NoHarvardJson ==
    /\ pc = "read"
    /\ DOMAIN harvard_data = {}
    /\ outcome' = [outcome EXCEPT ![Current] = "SkippedNoImportData"]
    /\ idx' = idx + 1
    /\ pc' = "loop"
    /\ UNCHANGED <<others, run, earlier, db, tx, files, arg, cluster_ids, harvard_data,
                   clean_dictionary, exc, matches, pre, attempted>>

\* What match_lists may return where map_and_merge_opinions calls it; the empty
\* dict stands for `matches` where it is not called
MatchReturns(st, c, hd) ==
    LET n == Len(st.opinions[c])
    IN IF /\ HasKey(hd, "casebody")
          /\ Len(ElementsOf(hd["casebody"], "opinion")) = n
          /\ ~MatchListsCrashes(n)
       THEN MatchLists(n)
       ELSE {NoDict}

\* Mutant of MapAndMerge: the atomic block is entered without `if harvard_data`
MapAndMergeUnguarded ==
    /\ pc = "read"
    /\ \E m \in MatchReturns(tx, Current, harvard_data) :
          LET r == MapAndMergeOpinions(tx, Current, harvard_data, m)
          IN /\ matches' = m
             /\ tx' = r.st
             /\ exc' = r.exc
             /\ pc' = IF r.exc = "None" THEN "combine" ELSE "raise"
    /\ UNCHANGED <<others, run, earlier, db, files, arg, cluster_ids, idx, harvard_data,
                   clean_dictionary, outcome, pre, attempted>>

\* with transaction.atomic(): map_and_merge_opinions(cluster_id, harvard_data)
MapAndMerge ==
    /\ pc = "read"
    /\ DOMAIN harvard_data # {}
    /\ \E m \in MatchReturns(tx, Current, harvard_data) :
          LET r == MapAndMergeOpinions(tx, Current, harvard_data, m)
          IN /\ matches' = m
             /\ tx' = r.st
             /\ exc' = r.exc
             /\ pc' = IF r.exc = "None" THEN "combine" ELSE "raise"
    /\ UNCHANGED <<others, run, earlier, db, files, arg, cluster_ids, idx, harvard_data,
                   clean_dictionary, outcome, pre, attempted>>

\* clean_dictionary = combine_non_overlapping_data(cluster_id, harvard_data)
Combine ==
    /\ pc = "combine"
    /\ LET r == CombineNonOverlappingData(tx, Current, harvard_data)
       IN /\ tx' = r.st
          /\ exc' = r.exc
          /\ clean_dictionary' = IF r.exc = "None" THEN r.dict ELSE clean_dictionary
          /\ pc' = IF r.exc = "None" THEN "docket_numbers" ELSE "raise"
    /\ UNCHANGED <<others, run, earlier, db, files, arg, cluster_ids, idx, harvard_data,
                   matches, outcome, pre, attempted>>

\* merge_docket_numbers(cluster_id, harvard_data["docket_number"])
DocketNumbers ==
    /\ pc = "docket_numbers"
    /\ IF HasKey(harvard_data, "docket_number")
       THEN /\ tx' = MergeDocketNumbers(tx, Current, harvard_data["docket_number"])
            /\ exc' = "None"
            /\ pc' = "case_names"
       ELSE /\ tx' = tx
            /\ exc' = "KeyError"
            /\ pc' = "raise"
    /\ UNCHANGED <<others, run, earlier, db, files, arg, cluster_ids, idx, harvard_data,
                   clean_dictionary, matches, outcome, pre, attempted>>

\* merge_case_names(cluster_id, harvard_data)
CaseNames ==
    /\ pc = "case_names"
    /\ LET r == MergeCaseNames(tx, Current, harvard_data)
       IN /\ tx' = r.st
          /\ exc' = r.exc
          /\ pc' = IF r.exc = "None" THEN "overlapping" ELSE "raise"
    /\ UNCHANGED <<others, run, earlier, db, files, arg, cluster_ids, idx, harvard_data,
                   clean_dictionary, matches, outcome, pre, attempted>>

\* merge_overlapping_data(cluster_id, clean_dictionary)
Overlapping ==
    /\ pc = "overlapping"
    /\ LET r == MergeOverlappingData(tx, Current, clean_dictionary)
       IN /\ tx' = r.st
          /\ exc' = r.exc
          /\ pc' = IF r.exc = "None" THEN "update_docket" ELSE "raise"
    /\ UNCHANGED <<others, run, earlier, db, files, arg, cluster_ids, idx, harvard_data,
                   clean_dictionary, matches, outcome, pre, attempted>>

\* update_docket(cluster_id=cluster_id)
Provenance ==
    /\ pc = "update_docket"
    /\ tx' = UpdateDocket(tx, Current)
    /\ pc' = "commit"
    /\ UNCHANGED <<others, run, earlier, db, files, arg, cluster_ids, idx, harvard_data,
                   clean_dictionary, exc, matches, outcome, pre, attempted>>

\* Mutant of AtomicExit: the writes made before an exception are kept
AtomicExitKeepsWrites(committed, working, raised) == working

\* What leaving the atomic block makes of the committed store: the block's
\* writes on a normal exit, none of them on an exception
AtomicExit(committed, working, raised) == IF raised = "None" THEN working ELSE committed

\* The except clauses of merge_opinion_clusters
Handled(e) == e \in {"AuthorException", "JudgeException"}

\* How a merge that left the atomic block by exception e ends
Ending(e) ==
    IF e = "AuthorException" THEN "AbortedAuthorship"
    ELSE IF e = "JudgeException" THEN "AbortedJudges"
    ELSE "Failed"

\* Normal exit of the atomic block: the transaction commits and
\* merge_opinion_clusters returns to the loop of start_merger
Commit ==
    /\ pc = "commit"
    /\ db' = AtomicExit(db, tx, exc)
    /\ attempted' = tx
    /\ outcome' = [outcome EXCEPT ![Current] = "Committed"]
    /\ idx' = idx + 1
    /\ pc' = "loop"
    /\ UNCHANGED <<others, run, earlier, tx, files, arg, cluster_ids, harvard_data,
                   clean_dictionary, exc, matches, pre>>

\* Mutant of Abort: the except clause raises again
AbortReraises ==
    /\ pc = "raise"
    /\ Handled(exc)
    /\ db' = AtomicExit(db, tx, exc)
    /\ tx' = db'
    /\ attempted' = tx
    /\ outcome' = [outcome EXCEPT ![Current] = Ending(exc)]
    /\ pc' = "crashed"
    /\ UNCHANGED <<others, run, earlier, files, arg, cluster_ids, idx, harvard_data,
                   clean_dictionary, exc, matches, pre>>

\* AuthorException or JudgeException leaves the atomic block: the transaction
\* is rolled back, the except clause logs a warning and merge_opinion_clusters
\* returns to the loop of start_merger
Abort ==
    /\ pc = "raise"
    /\ Handled(exc)
    /\ db' = AtomicExit(db, tx, exc)
    /\ tx' = db'
    /\ attempted' = tx
    /\ outcome' = [outcome EXCEPT ![Current] = Ending(exc)]
    /\ exc' = "None"
    /\ idx' = idx + 1
    /\ pc' = "loop"
    /\ UNCHANGED <<others, run, earlier, files, arg, cluster_ids, harvard_data,
                   clean_dictionary, matches, pre>>

\* Any other exception is rolled back too, and leaves merge_opinion_clusters
\* and start_merger, which has no try around the call
Propagate ==
    /\ pc = "raise"
    /\ ~Handled(exc)
    /\ db' = AtomicExit(db, tx, exc)
    /\ tx' = db'
    /\ attempted' = tx
    /\ outcome' = [outcome EXCEPT ![Current] = Ending(exc)]
    /\ pc' = "crashed"
    /\ UNCHANGED <<others, run, earlier, files, arg, cluster_ids, idx, harvard_data,
                   clean_dictionary, exc, matches, pre>>

\* The loop of start_merger is exhausted
Finish ==
    /\ pc = "loop"
    /\ idx > Len(cluster_ids)
    /\ pc' = "done"
    /\ UNCHANGED <<others, run, earlier, db, tx, files, arg, cluster_ids, idx, harvard_data,
                   clean_dictionary, exc, matches, outcome, pre, attempted>>

\* The command is run again without cluster id, after a run that ended or was
\* ended by an exception
RunAgain ==
    /\ pc \in {"done", "crashed"}
    /\ arg = 0
    /\ run < MaxRuns
    /\ run' = run + 1
    /\ pc' = "start"
    /\ cluster_ids' = <<>>
    /\ idx' = 0
    /\ exc' = "None"
    /\ earlier' = [c \in Clusters |-> IF outcome[c] # "NotRun" THEN outcome[c]
                                      ELSE earlier[c]]
    /\ outcome' = [c \in Clusters |-> "NotRun"]
    /\ UNCHANGED <<others, db, tx, files, arg, harvard_data, clean_dictionary, matches,
                   pre, attempted>>

Next ==
    \/ StartMerger
    \/ ReadJson
    \/ NoHarvardJson
    \/ MapAndMerge
    \/ Combine
    \/ DocketNumbers
    \/ CaseNames
    \/ Overlapping
    \/ Provenance
    \/ Commit
    \/ Abort
    \/ Propagate
    \/ Finish
    \/ RunAgain

Spec == Init /\ [][Next]_vars

-----------------------------------------------------------------------------
(* The policy functions of the Field Reconciler, each called on one entry of a
   conflict set.  The entry is what combine_non_overlapping_data queues: the
   imported value and the value the record holds, both non-empty and different.
   pc is "call" before the call, "returned" after it and "rerun" after a second
   partition and reconciliation of the same imported value. *)

\* Long narrative texts: two of similarity exactly 0.9 and equal length, one of
\* similarity 0.9 to the second and 1 to the first that is longer than both, and
\* three unrelated to these, shorter, as long and longer
LongTexts ==
    {<<"x", "x", "x", "y">>,
     <<"x", "x", "x", "z">>,
     <<"x", "x", "x", "y", "x", "x", "x", "y">>,
     <<"p", "q">>,
     <<"p", "q", "r", "s">>,
     <<"p", "q", "r", "s", "t">>}

\* Imported judges as fetch_non_harvard_data writes them: sorted, title-cased
ImportedJudges == {Titlecase(SortedNames(S)) : S \in SUBSET TokensOf(NameOrder) \ {{}}}

\* Judges as a record has them
ExistingJudges ==
    {<<"Smith">>, <<"J.", "Smith">>, <<"Smith", "and", "Jones">>, <<"Doe">>,
     <<"Per", "Curiam">>}

\* Date texts: a year, a year and a month, a full date
DateTexts == {<<"1990">>, <<"1990", "05">>, <<"1990", "05", "17">>}

\* Short free texts
ShortTexts == {<<"a">>, <<"a", "b">>, <<"c", "d">>}

Entry(field, harvard, cl, approximate) ==
    [field |-> field, harvard |-> harvard, cl |-> cl, approximate |-> approximate]

\* The calls merge_overlapping_data makes, by class of the field
ReconcilerInputs ==
    {Entry(f, a, b, FALSE) : f \in {"syllabus", "disposition", "cross_reference"},
                             a \in LongTexts, b \in LongTexts}
    \cup {Entry("judges", a, b, FALSE) : a \in ImportedJudges, b \in ExistingJudges}
    \cup {Entry(f, a, <<"1990", "01", "02">>, x) : f \in {"date_filed", "other_dates"},
                                                  a \in DateTexts, x \in BOOLEAN}
    \cup {Entry("attorneys", a, b, FALSE) : a \in ShortTexts, b \in ShortTexts}

ReconcilerInit ==
    \E in \in {e \in ReconcilerInputs : e.harvard # e.cl} :
        LET row == [ClusterRow(1, "harvard.json", EmptyText) EXCEPT
                        ![in.field] = in.cl,
                        !.date_filed_is_approximate = in.approximate]
            sc == [c \in Clusters |->
                     IF c = 1 THEN [DefaultScenario(c) EXCEPT !.cluster = row]
                     ELSE DefaultScenario(c)]
        IN /\ db = StoreOf(sc)
           /\ tx = StoreOf(sc)
           /\ pre = StoreOf(sc)
           /\ attempted = StoreOf(sc)
           /\ matches = NoDict
           /\ files = [c \in Clusters |-> sc[c].file]
           /\ arg = 1
           /\ pc = "call"
           /\ cluster_ids = <<1>>
           /\ idx = 1
           /\ harvard_data = sc[1].file
           /\ clean_dictionary = [k \in {in.field} |-> <<in.harvard, in.cl>>]
           /\ exc = "None"
           /\ outcome = [c \in Clusters |-> "NotRun"]
           /\ run = 1
           /\ earlier = [c \in Clusters |-> "NotRun"]
           /\ OthersIdle

\* The field of the one entry of the conflict set
QueuedField == CHOOSE k \in DOMAIN clean_dictionary : TRUE

\* The call returns (or raises): the connection sees the store it leaves
Returned(r) ==
    /\ tx' = r.st
    /\ attempted' = r.st
    /\ exc' = r.exc
    /\ pc' = "returned"
    /\ UNCHANGED <<others, run, earlier, db, files, arg, cluster_ids, idx, harvard_data,
                   clean_dictionary, matches, outcome, pre>>

CallMergeLongFields ==
    /\ pc = "call"
    /\ QueuedField \in LongFields
    /\ Returned(MergeLongFields(tx, Current, QueuedField, clean_dictionary[QueuedField]))

CallMergeDates ==
    /\ pc = "call"
    /\ QueuedField \in {"date_filed", "other_dates"}
    /\ Returned(MergeDates(tx, Current, QueuedField, clean_dictionary[QueuedField]))

CallMergeJudges ==
    /\ pc = "call"
    /\ QueuedField = "judges"
    /\ Returned(MergeJudges(tx, Current, clean_dictionary[QueuedField]))

CallMergeStrings ==
    /\ pc = "call"
    /\ QueuedField = "attorneys"
    /\ Returned(MergeStrings(tx, Current, QueuedField, clean_dictionary[QueuedField]))

\* The same imported value of a long field is merged again into the record the
\* first merge left: the loop body of combine_non_overlapping_data for it, then
\* merge_long_fields if it was queued
RerunLongFields ==
    /\ pc = "returned"
    /\ QueuedField \in LongFields
    /\ LET harvard == clean_dictionary[QueuedField][1]
           r == CombineItem(tx, Current, tx.clusters[Current], QueuedField, harvard, NoDict)
       IN tx' = IF QueuedField \in DOMAIN r.dict
                THEN MergeLongFields(r.st, Current, QueuedField, r.dict[QueuedField]).st
                ELSE r.st
    /\ pc' = "rerun"
    /\ UNCHANGED <<others, run, earlier, db, files, arg, cluster_ids, idx, harvard_data,
                   clean_dictionary, exc, matches, outcome, pre, attempted>>

ReconcilerNext ==
    \/ CallMergeLongFields
    \/ CallMergeDates
    \/ CallMergeJudges
    \/ CallMergeStrings
    \/ RerunLongFields

ReconcilerSpec == ReconcilerInit /\ [][ReconcilerNext]_vars

-----------------------------------------------------------------------------
(* Vocabulary of the properties *)

\* A merge_opinion_clusters call is between its read_json and its return
InRun == pc \in {"read", "combine", "docket_numbers", "case_names", "overlapping",
                 "update_docket", "commit", "raise"}

\* The atomic block of the current call has run map_and_merge_opinions
AfterMap == pc \in {"combine", "docket_numbers", "case_names", "overlapping",
                    "update_docket", "commit"}

\* A merge_opinion_clusters call has ended and no other has started since
Ended == pc = "crashed" \/ (pc \in {"loop", "done"} /\ idx > 1)

\* The record of that call
Last == IF pc = "crashed" THEN cluster_ids[idx] ELSE cluster_ids[idx - 1]

\* The batch has stopped
Stopped == pc \in {"done", "crashed"}

\* The docket of a record
DocketOf(c) == db.clusters[c].docket

ImportedSegments == ElementsOf(harvard_data["casebody"], "opinion")

LastNameSet(text) == TokensOf(ExtractJudgeLastName(text))

-----------------------------------------------------------------------------
(* C1 *)

\* C1: a merge of one record is all-or-nothing. While the merge runs the
\* committed store is the store it started from; when it has ended, either it
\* ended Committed and the committed store is the store the atomic block built,
\* with its first write (the opinions) and its last (the docket's provenance)
\* both in it, or it ended otherwise and the committed store is exactly the
\* store from before the merge.
C1_AllOrNothing ==
    /\ InRun => db = pre
    /\ Ended =>
         \/ /\ outcome[Last] = "Committed"
            /\ db = attempted
            /\ db.opinions[Last] = attempted.opinions[Last]
            /\ db.dockets[DocketOf(Last)].source = HARVARD + pre.dockets[DocketOf(Last)].source
         \/ /\ outcome[Last] # "Committed"
            /\ db = pre

\* A merge that had saved an opinion before the authorship conflict ended
C1_Witness ==
    /\ Ended
    /\ outcome[Last] = "AbortedAuthorship"
    /\ attempted # pre
    /\ db = pre

-----------------------------------------------------------------------------
(* C2 *)

JudgesDisjoint(dict) ==
    /\ "judges" \in DOMAIN dict
    /\ LastNameSet(dict["judges"][1]) \cap LastNameSet(dict["judges"][2]) = {}

\* C2: whenever the conflict set of a record holds a judges entry whose imported
\* and existing last-name sets are disjoint, the merge ends Aborted-Judges and
\* commits nothing.
C2_JudgesDisjointAborts ==
    (Ended /\ JudgesDisjoint(clean_dictionary)) =>
        (outcome[Last] = "AbortedJudges" /\ db = pre)

-----------------------------------------------------------------------------
(* C3 *)

\* Matched pair k: the existing opinion has a free-text author and no resolved
\* author, and its last name differs from that of the imported segment's author
AuthorMismatch(k) ==
    LET op == pre.opinions[Last][k]
        hvd == ImportedSegments[matches[k]].author
    IN /\ op.author_str # EmptyText
       /\ op.author = "None"
       /\ hvd # <<>>
       /\ ExtractJudgeLastName(op.author_str) # ExtractJudgeLastName(hvd[1])

\* C3: when the alignment succeeds and some matched pair has an authorship
\* mismatch, the merge ends Aborted-Authorship and commits nothing.
C3_AuthorMismatchAborts ==
    (Ended /\ DOMAIN matches # {} /\ \E k \in DOMAIN matches : AuthorMismatch(k)) =>
        (outcome[Last] = "AbortedAuthorship" /\ db = pre)

-----------------------------------------------------------------------------
(* C4 *)

\* The alignment was abandoned: the lengths differ, or match_lists was called
\* and returned no mapping
Abandoned(c) ==
    \/ Len(ImportedSegments) # Len(pre.opinions[c])
    \/ /\ Len(pre.opinions[c]) > 0
       /\ DOMAIN matches = {}

\* `new` is `old` followed by one combined opinion holding the whole case body
OneCombinedAdded(old, new) ==
    /\ Len(new) = Len(old) + 1
    /\ SubSeq(new, 1, Len(old)) = old
    /\ new[Len(new)].type = "010combined"
    /\ new[Len(new)].xml_harvard = harvard_data["casebody"]

\* C4: whenever the alignment is abandoned, map_and_merge_opinions adds exactly
\* one combined opinion holding the whole imported case body and leaves every
\* existing opinion as it was: in the transaction once the step has run, and in
\* the committed store once the merge has committed.
C4_CombinedOnAbandon ==
    /\ (AfterMap /\ Abandoned(Current)) =>
          OneCombinedAdded(pre.opinions[Current], tx.opinions[Current])
    /\ (Ended /\ outcome[Last] = "Committed" /\ Abandoned(Last)) =>
          OneCombinedAdded(pre.opinions[Last], db.opinions[Last])

\* match_lists was called on two opinions and returned no mapping
C4_Witness ==
    /\ pc = "combine"
    /\ Len(pre.opinions[Current]) = 2
    /\ Len(ImportedSegments) = 2
    /\ DOMAIN matches = {}
    /\ Len(tx.opinions[Current]) = 3

-----------------------------------------------------------------------------
(* C5 *)

\* C5: when the aligner has finished without abort, either every existing
\* opinion was visited (the matched segment is stored on it) and no opinion was
\* added, or every existing opinion is untouched and one combined opinion was
\* added.
C5_VisitedOrSuperseded ==
    pc = "combine" =>
        LET old == pre.opinions[Current]
            new == tx.opinions[Current]
        IN \/ /\ Len(new) = Len(old)
              /\ \A k \in 1..Len(old) :
                    /\ k \in DOMAIN matches
                    /\ new[k].xml_harvard = <<ImportedSegments[matches[k]]>>
           \/ /\ Len(new) = Len(old) + 1
              /\ new[Len(new)].type = "010combined"
              /\ \A k \in 1..Len(old) : new[k] = old[k]

-----------------------------------------------------------------------------
(* C6 *)

NamedEnding == {"AbortedAuthorship", "AbortedJudges", "SkippedNoImportData"}

\* C6: a record that ended in a named abort or was skipped does not halt the
\* batch: the loop of start_merger has moved past it, and once the batch has
\* stopped the record after it has been passed to merge_opinion_clusters and has
\* ended too.
C6_BatchContinues ==
    \A i \in 1..Len(cluster_ids) :
        outcome[cluster_ids[i]] \in NamedEnding =>
            /\ idx > i
            /\ (Stopped /\ i < Len(cluster_ids)) => outcome[cluster_ids[i + 1]] # "NotRun"

\* The first record of a batch was aborted and the second was merged
C6_Witness ==
    /\ pc = "done"
    /\ Len(cluster_ids) >= 2
    /\ outcome[cluster_ids[1]] = "AbortedAuthorship"
    /\ outcome[cluster_ids[2]] = "Committed"

-----------------------------------------------------------------------------
(* C7 *)

\* C7: a failure other than the two named conflicts is isolated to its record:
\* nothing of that record is committed and, once the batch has stopped, every
\* record after it has been processed.
C7_FailureIsolated ==
    \A i \in 1..Len(cluster_ids) :
        outcome[cluster_ids[i]] = "Failed" =>
            /\ db.clusters[cluster_ids[i]] = pre.clusters[cluster_ids[i]]
            /\ Stopped => \A j \in (i + 1)..Len(cluster_ids) :
                             outcome[cluster_ids[j]] # "NotRun"

-----------------------------------------------------------------------------
(* C8 *)

\* The record has no imported document: read_json returns None
NoImportData(st, c) == st.clusters[c].filepath_json_harvard \in {"Null", ""}

\* C8: for a record without imported document the merge never enters the atomic
\* block and ends Skipped-NoImportData with the store, the docket's provenance
\* included, exactly as before.
C8_SkippedWithoutData ==
    /\ (InRun /\ NoImportData(pre, Current)) =>
          (pc = "read" /\ db = pre /\ tx = pre)
    /\ (Ended /\ NoImportData(pre, Last)) =>
          /\ outcome[Last] = "SkippedNoImportData"
          /\ db = pre
          /\ attempted = pre
          /\ db.dockets[DocketOf(Last)].source = pre.dockets[DocketOf(Last)].source

\* A record named on the command line has no imported document and was skipped
C8_Witness ==
    /\ Ended
    /\ arg # 0
    /\ NoImportData(pre, Last)
    /\ outcome[Last] = "SkippedNoImportData"

-----------------------------------------------------------------------------
(* C9 *)

SourceBits == {RECAP, HARVARD}

Includes(source, bit) == (source \div bit) % 2 = 1

\* C9: after a merge that ended Committed the docket's provenance includes the
\* imported corpus and every source it included before.
C9_ProvenanceIncludesHarvard ==
    (Ended /\ outcome[Last] = "Committed") =>
        /\ Includes(db.dockets[DocketOf(Last)].source, HARVARD)
        /\ \A b \in SourceBits :
              Includes(pre.dockets[DocketOf(Last)].source, b) =>
                  Includes(db.dockets[DocketOf(Last)].source, b)

-----------------------------------------------------------------------------
(* C10 *)

\* C10: a merge of one record leaves the docket, the cluster and the opinions
\* of every other record unchanged.
C10_OtherRecordsUnchanged ==
    Ended => \A o \in Clusters \ {Last} :
                /\ db.dockets[o] = pre.dockets[o]
                /\ db.clusters[o] = pre.clusters[o]
                /\ db.opinions[o] = pre.opinions[o]

-----------------------------------------------------------------------------
(* C11 *)

\* C11: in every merge that reaches the reconciliation step, the step applies
\* the policy function of its class once to every entry of the conflict set, in
\* the order of the set, and skips only the unrecognized names: the store (and
\* the exception, if any) it leaves is the one that running the Field Reconciler
\* over the whole conflict set gives.
C11_ReconcilerRunsOverConflicts ==
    [][pc = "overlapping" =>
          LET r == MergeFields(tx, Current, clean_dictionary, 1)
          IN tx' = r.st /\ exc' = r.exc]_vars

-----------------------------------------------------------------------------
(* C12 *)

\* The UPDATE statements of the step from tx to tx' that set `field` of cluster c
UpdatesOf(c, field) ==
    {i \in (Len(tx.updates) + 1)..Len(tx'.updates) :
        /\ tx'.updates[i].model = "OpinionCluster"
        /\ tx'.updates[i].id = c
        /\ field \in tx'.updates[i].fields}

\* What the partition step does with the imported value of one auxiliary field
PartitionedField(c, field, value) ==
    LET cl_value == tx.clusters[c][field]
    IN IF ~Truthy(cl_value)
       THEN /\ tx'.clusters[c][field] = value
            /\ Cardinality(UpdatesOf(c, field)) = 1
            /\ field \notin DOMAIN clean_dictionary'
       ELSE IF value # cl_value
       THEN /\ tx'.clusters[c][field] = cl_value
            /\ UpdatesOf(c, field) = {}
            /\ field \in DOMAIN clean_dictionary'
            /\ clean_dictionary'[field] = <<value, cl_value>>
       ELSE /\ tx'.clusters[c][field] = cl_value
            /\ UpdatesOf(c, field) = {}
            /\ field \notin DOMAIN clean_dictionary'

\* C12: the partition step handles every non-empty auxiliary field of the
\* imported data: a field that is empty on the record is filled with the
\* imported value by one write and is not queued; a field that is not empty and
\* differs is queued as (imported, existing) and not written; a field that is
\* equal is neither written nor queued.
C12_PartitionFillsOrQueues ==
    [][pc = "combine" =>
          LET all_data == FetchNonHarvardData(harvard_data)
          IN \A key \in DOMAIN all_data :
                PartitionedField(Current, RecordField(key), all_data[key])]_vars

-----------------------------------------------------------------------------
(* C13 *)

\* The docket of the record being merged
CurrentDocket == tx.clusters[Current].docket

\* The UPDATE statements on Docket the current merge has issued
DocketUpdates ==
    {i \in (Len(pre.updates) + 1)..Len(tx.updates) : tx.updates[i].model = "Docket"}

\* The docket number of the record is the imported one, by one write
Adopted ==
    /\ tx.dockets[CurrentDocket].docket_number = harvard_data["docket_number"]
    /\ Cardinality(DocketUpdates) = 1

\* The docket number of the record is as before, and no write was issued
LeftUnchanged ==
    /\ tx.dockets[CurrentDocket].docket_number = pre.dockets[CurrentDocket].docket_number
    /\ DocketUpdates = {}

\* The rule of the docket-number resolution for a record that has a number
DocketRule ==
    LET old == pre.dockets[CurrentDocket].docket_number
        imported == harvard_data["docket_number"]
    IN IF IsSubstring(old, imported) THEN Adopted
       ELSE IF /\ CosineAbove(CleanDocketNumber(old), CleanDocketNumber(imported), 8, 10)
               /\ Len(imported) > Len(old)
       THEN Adopted
       ELSE LeftUnchanged

-----------------------------------------------------------------------------
(* C14 *)

\* The call of a policy function on the queued entry has returned
ReturnedFrom(fields) == pc = "returned" /\ QueuedField \in fields

Imported == clean_dictionary[QueuedField][1]
Existing == clean_dictionary[QueuedField][2]

\* The value of the queued field on the record
FieldNow == tx.clusters[Current][QueuedField]

\* The UPDATE statements on the queued field that the call issued
FieldUpdates ==
    {i \in (Len(pre.updates) + 1)..Len(tx.updates) :
        /\ tx.updates[i].model = "OpinionCluster"
        /\ tx.updates[i].id = Current
        /\ QueuedField \in tx.updates[i].fields}

\* similarity(a, b) >= num/den
SimilarityAtLeast(a, b, num, den) ==
    /\ Dot(a, a) * Dot(b, b) > 0
    /\ den * den * Dot(a, b) * Dot(a, b) >= num * num * Dot(a, a) * Dot(b, b)

\* C14: merge_long_fields with imported value A and existing value B: if
\* similarity(A, B) >= 0.9 no write is issued and the field keeps B; if it is
\* below 0.9 the field holds A when A is longer than B and keeps B, without a
\* write, when it is not. The field holds exactly A or exactly B.
C14_LongFieldsKeepOrReplace ==
    ReturnedFrom(LongFields) =>
        /\ FieldNow \in {Imported, Existing}
        /\ exc = "None"
        /\ IF SimilarityAtLeast(Imported, Existing, 9, 10)
           THEN FieldNow = Existing /\ FieldUpdates = {}
           ELSE IF Len(Imported) > Len(Existing)
           THEN FieldNow = Imported /\ Cardinality(FieldUpdates) = 1
           ELSE FieldNow = Existing /\ FieldUpdates = {}

\* A longer imported text of similarity exactly 0.9 did not replace the
\* existing one
C14_Witness ==
    /\ ReturnedFrom(LongFields)
    /\ 100 * Dot(Imported, Existing) * Dot(Imported, Existing)
          = 81 * Dot(Imported, Imported) * Dot(Existing, Existing)
    /\ Len(Imported) > Len(Existing)
    /\ FieldNow = Existing

-----------------------------------------------------------------------------
(* C15 *)

\* C15: long-text merge is idempotent: when the same imported value is merged
\* again into the record the first merge left, no further write is issued and
\* the field keeps the value the first merge left.
C15_LongFieldsIdempotent ==
    (pc = "rerun" /\ QueuedField \in LongFields) =>
        /\ FieldNow = attempted.clusters[Current][QueuedField]
        /\ Len(tx.updates) = Len(attempted.updates)

\* The first merge replaced the existing text, the second found nothing to do
C15_Witness ==
    /\ pc = "rerun"
    /\ QueuedField \in LongFields
    /\ attempted.clusters[Current][QueuedField] = Imported
    /\ pre.clusters[Current][QueuedField] = Existing
    /\ Len(attempted.updates) = Len(pre.updates) + 1
    /\ FieldNow = Imported

-----------------------------------------------------------------------------
(* C16 *)

\* C16: merge_judges with the imported last names A and the existing last names
\* B: if A is a strict superset of B the judges field is overwritten, by one
\* write, with the names of A title-cased and sorted; if A and B overlap and A is
\* not a strict superset of B (A = B included) the field keeps its value, no
\* write is issued and nothing is raised.
C16_JudgesSupersetOverwrites ==
    ReturnedFrom({"judges"}) =>
        LET A == LastNameSet(Imported)
            B == LastNameSet(Existing)
        IN IF B \subseteq A /\ A # B
           THEN /\ FieldNow = Titlecase(SortedNames(A))
                /\ Cardinality(FieldUpdates) = 1
                /\ exc = "None"
           ELSE (A \cap B # {}) =>
                   /\ FieldNow = Existing
                   /\ FieldUpdates = {}
                   /\ exc = "None"

\* Imported Jones and Smith, existing Smith: the field holds "Jones, Smith"
C16_Witness ==
    /\ ReturnedFrom({"judges"})
    /\ LastNameSet(Imported) = {"jones", "smith"}
    /\ LastNameSet(Existing) = {"smith"}
    /\ FieldNow = <<"Jones", "Smith">>

-----------------------------------------------------------------------------
(* C17 *)

\* C17: merge_dates overwrites the date field with the parsed imported date and
\* takes over its precision exactly when the record's date is flagged
\* approximate and the parsed imported date is not; in every other case the
\* field and the approximate flag are as before.
C17_DatesTakeOverPrecision ==
    ReturnedFrom({"date_filed", "other_dates"}) =>
        LET parsed == ValidateDt(Imported)
            flag == tx.clusters[Current].date_filed_is_approximate
        IN IF pre.clusters[Current].date_filed_is_approximate /\ ~parsed.is_approximate
           THEN FieldNow = parsed.date /\ flag = parsed.is_approximate
           ELSE /\ FieldNow = Existing
                /\ flag = pre.clusters[Current].date_filed_is_approximate

-----------------------------------------------------------------------------
(* C18 *)

\* C18: merge_strings: the field holds the imported value, by one write, exactly
\* when the imported value is longer than the existing one; when it is as long
\* or shorter no write is issued and the field keeps the existing value.
C18_StringsKeepLonger ==
    ReturnedFrom({"attorneys"}) =>
        /\ exc = "None"
        /\ IF Len(Imported) > Len(Existing)
           THEN FieldNow = Imported /\ Cardinality(FieldUpdates) = 1
           ELSE FieldNow = Existing /\ FieldUpdates = {}

\* Imported attorneys as long as the existing ones, and different, were not
\* written
C18_Witness ==
    /\ ReturnedFrom({"attorneys"})
    /\ Len(Imported) = Len(Existing)
    /\ Imported # Existing
    /\ FieldNow = Existing

-----------------------------------------------------------------------------
(* C19 *)

\* The name the resolution of one name field selects: the imported one (as
\* harmonize gives it) when the existing one is empty, or when both are not
\* empty and the imported one is longer; the existing one otherwise
Resolved(existing, imported) ==
    IF ~Truthy(imported) THEN existing
    ELSE IF ~Truthy(existing) THEN Harmonize(imported)
    ELSE IF Len(Harmonize(imported)) > Len(Harmonize(existing)) THEN Harmonize(imported)
    ELSE existing

ResolvedShort == Resolved(pre.clusters[Current].case_name, harvard_data["name_abbreviation"])
ResolvedFull == Resolved(pre.clusters[Current].case_name_full, harvard_data["name"])

\* The two selected names are both there and the short one is the longer
ShortIsLonger ==
    /\ Truthy(ResolvedShort) /\ Truthy(ResolvedFull)
    /\ Len(ResolvedShort) > Len(ResolvedFull)

\* C19: after merge_case_names the two names are the ones selected for each
\* field by its own existing and imported value: each field holds its selected
\* name, unless the selected short name is longer than the selected full one,
\* and then the two fields hold the two selected names.
C19_CaseNamesResolvedIndependently ==
    pc = "overlapping" =>
        LET short == tx.clusters[Current].case_name
            full == tx.clusters[Current].case_name_full
        IN IF ShortIsLonger
           THEN {short, full} = {Harmonize(ResolvedShort), Harmonize(ResolvedFull)}
           ELSE short = ResolvedShort /\ full = ResolvedFull

\* The short name was kept (the imported one is as long) and the full name was
\* adopted (the imported one is longer)
C19_Witness ==
    /\ pc = "overlapping"
    /\ Len(pre.clusters[Current].case_name) = 3
    /\ Len(harvard_data["name_abbreviation"]) = 3
    /\ Len(pre.clusters[Current].case_name_full) = 3
    /\ Len(harvard_data["name"]) = 5
    /\ tx.clusters[Current].case_name = pre.clusters[Current].case_name
    /\ tx.clusters[Current].case_name_full = Harmonize(harvard_data["name"])

-----------------------------------------------------------------------------
(* C20 *)

-----------------------------------------------------------------------------
(* C21 *)

\* map_and_merge_opinions of the current merge has ended, by return or by raise,
\* after match_lists gave it a mapping
AlignedAndEnded ==
    /\ DOMAIN matches # {}
    /\ \/ pc = "combine"
       \/ pc = "raise" /\ exc \in {"IndexError", "AuthorException"}

\* Pair k of the current merge: the existing opinion and the imported segment
ExistingOf(k) == pre.opinions[Current][k]
SegmentOf(k) == ImportedSegments[matches[k]]

\* The existing opinion of pair k has a free-text author and no resolved author
FreeTextAuthor(k) == ExistingOf(k).author_str # EmptyText /\ ExistingOf(k).author = "None"

\* Pair k has a free-text author whose last name is not the one of the imported
\* segment's author
Mismatch(k) ==
    /\ FreeTextAuthor(k)
    /\ SegmentOf(k).author # <<>>
    /\ ExtractJudgeLastName(ExistingOf(k).author_str)
          # ExtractJudgeLastName(SegmentOf(k).author[1])

\* What map_and_merge_opinions leaves of pair k: the segment's markup on the
\* opinion, and the segment's author text as author_str where the opinion had a
\* free-text author of the same last name
PairMerged(k) ==
    LET op == tx.opinions[Current][k]
    IN /\ op.xml_harvard = <<SegmentOf(k)>>
       /\ IF FreeTextAuthor(k) /\ SegmentOf(k).author # <<>>
          THEN op.author_str = SegmentOf(k).author[1]
          ELSE op.author_str = ExistingOf(k).author_str

\* C21: on a successful alignment without authorship mismatch, once
\* map_and_merge_opinions has ended every matched pair has the imported
\* segment's markup stored on its existing opinion, author_str is the imported
\* author text where the opinion had a free-text author of the same last name
\* and no resolved author, and is as before on the other opinions.
C21_MatchedPairsMerged ==
    (AlignedAndEnded /\ \A k \in DOMAIN matches : ~Mismatch(k)) =>
        \A k \in DOMAIN matches : PairMerged(k)

-----------------------------------------------------------------------------
(* C22 *)

\* Pair k has a free-text author and its imported segment no author element
NoAuthorElement(k) == FreeTextAuthor(k) /\ SegmentOf(k).author = <<>>

\* C22: on a successful alignment, a matched pair whose existing opinion has a
\* free-text author and no resolved author and whose imported segment has no
\* author element makes map_and_merge_opinions neither abort nor raise: it
\* returns with author_str of the opinion unchanged and the segment's markup
\* stored on it.
C22_MissingAuthorTolerated ==
    (AlignedAndEnded /\ \A k \in DOMAIN matches : ~Mismatch(k)) =>
        \A k \in DOMAIN matches :
            NoAuthorElement(k) =>
                /\ pc = "combine"
                /\ exc = "None"
                /\ tx.opinions[Current][k].author_str = ExistingOf(k).author_str
                /\ tx.opinions[Current][k].xml_harvard = <<SegmentOf(k)>>

-----------------------------------------------------------------------------
(* C23 *)

\* C23: when the imported data has an other-date value (key otherdate) or a
\* see-also value (key seealso), the partition step completes without failure
\* and handles the value as the record's other_dates or cross_reference field:
\* filled when the record's is empty, queued under the record's name when it
\* differs.
C23_OtherDateAndSeeAlsoPartitioned ==
    [][pc = "combine" =>
          LET all_data == FetchNonHarvardData(harvard_data)
          IN \A key \in DOMAIN all_data \cap {"otherdate", "seealso"} :
                /\ pc' = "docket_numbers"
                /\ exc' = "None"
                /\ PartitionedField(Current, RecordField(key), all_data[key])]_vars

-----------------------------------------------------------------------------
(* C24 *)

\* The records start_merger selects in the step it is taking
Selected == {cluster_ids'[i] : i \in 1..Len(cluster_ids')}

\* The combined opinions of a record in a store
Combined(st, c) == {k \in 1..Len(st.opinions[c]) : st.opinions[c][k].type = "010combined"}

-----------------------------------------------------------------------------
(* cl/lib/email_backends.py: the counters in Redis and EmailBackend.  A
   sender is one process that calls send_messages; r.get and the execution of
   a pipeline are one step each, so that the senders interleave between the
   read of email:temp_counter and the writes.  The value of a Redis key is
   <<>> when the key is absent and <<n>> when it holds n (r.get returns None
   or a non-empty string, and a non-empty string is true whatever it holds). *)

NumSenders == 2
MaxBatch == 2
MaxCalls == 2
MaxTempCounter == 2
MaxThreshold == 3

\* The window of get_attempts_in_window, in ticks of the clock
Window == 24

Senders == 1..NumSenders

\* cl.users.email_handlers, by the EmailBannedModel and EmailFlag rows
Banned == {"banned@x"}
Backoff == {"slow@x"}

IsNotEmailBanned(email_address) == email_address \notin Banned

UnderBackoffWaitingPeriod(email_address) == email_address \in Backoff

\* The address of a recipient given with a display name
NormalizeAddress(recipient) ==
    IF recipient = "Ban <banned@x>" THEN "banned@x" ELSE recipient

NormalizeAddresses(to) == [i \in 1..Len(to) |-> NormalizeAddress(to[i])]

\* get_attempts_in_window: the sorted set without the elements out of the
\* window, and its cardinality
GetAttemptsInWindow(r, current_time) ==
    LET trim_time == current_time - Window
        kept == {t \in r.delivery_attempts : ~(0 <= t /\ t <= trim_time)}
    IN [redis |-> [r EXCEPT !.delivery_attempts = kept], size |-> Cardinality(kept)]

\* get_email_count, from what r.get and get_attempts_in_window returned
GetEmailCount(temp_counter, previous_attempts) ==
    IF temp_counter = <<>>
    THEN previous_attempts * settings.EMAIL_MAX_TEMP_COUNTER
    ELSE temp_counter[1] + previous_attempts * settings.EMAIL_MAX_TEMP_COUNTER

\* incr_email_temp_counter: the test on what r.get returned
ReachesMax(temp_counter) ==
    /\ temp_counter # <<>>
    /\ temp_counter[1] + 1 >= settings.EMAIL_MAX_TEMP_COUNTER

\* incr_email_temp_counter: the pipeline it executes
IncrPipeline(r, temp_counter, current_time) ==
    IF ReachesMax(temp_counter)
    THEN [r EXCEPT !.delivery_attempts = @ \cup {current_time}, !.temp_counter = <<0>>]
    ELSE [r EXCEPT !.temp_counter = IF @ = <<>> THEN <<1>> ELSE <<@[1] + 1>>]

\* send_messages: the recipients of a message that are not banned
RecipientList(to) == SelectSeq(NormalizeAddresses(to), IsNotEmailBanned)

\* Mutant of FinalRecipientList: a recipient under a waiting period is kept
FinalRecipientListWithBackoff(recipient_list) == recipient_list

\* send_messages: those of them that are under no backoff waiting period
FinalRecipientList(recipient_list) ==
    SelectSeq(recipient_list, LAMBDA a : ~UnderBackoffWaitingPeriod(a))

\* send_messages: those of them that are under one
BackoffRecipientList(recipient_list) == SelectSeq(recipient_list, UnderBackoffWaitingPeriod)

\* Recipient lists of the messages given to send_messages
Messages == {<<"ok@x">>, <<"banned@x">>, <<"slow@x">>, <<"ok@x", "Ban <banned@x>", "slow@x">>,
             <<"banned@x", "slow@x">>}

Plain == <<"ok@x">>

\* How a call of send_messages ended
Returns(value) == [value |-> value, raised |-> "None"]

Raises(exception) == [value |-> 0, raised |-> exception]

\* A sender before its first call; `todo` holds the email_messages of the calls
\* it will make
NewSender(todo) ==
    [pc |-> "idle", todo |-> todo, email_messages |-> <<>>, msg_count |-> 0,
     temp_counter |-> <<>>, to |-> <<>>, stored_id |-> 0, returns |-> <<>>]

\* The calls of one sender that show every case of the recipients' filter
RecipientCalls == {<<email_messages>> : email_messages \in SeqsUpTo(Messages, MaxBatch)}

\* The calls of one sender that count: plain messages only
PlainCalls == SeqsUpTo({[i \in 1..n |-> Plain] : n \in 0..MaxBatch}, MaxCalls)

\* The counters after k plain messages of an earlier sender, k below
\* EMAIL_MAX_TEMP_COUNTER and not above EMAIL_EMERGENCY_THRESHOLD
MailAfter(k) ==
    /\ redis = [temp_counter |-> IF k = 0 THEN <<>> ELSE <<k>>, delivery_attempts |-> {}]
    /\ sent = [i \in 1..k |-> [by |-> 0, call |-> 1, to |-> Plain, stored_id |-> i]]
    /\ mail_db = [stored |-> [i \in 1..k |-> [by |-> 0, to |-> Plain]], queue |-> <<>>]

\* One sender from an absent email:temp_counter, or every sender with one plain
\* message each after some earlier ones
MailInit ==
    /\ settings \in [EMAIL_MAX_TEMP_COUNTER : 1..MaxTempCounter,
                     EMAIL_EMERGENCY_THRESHOLD : 1..MaxThreshold]
    /\ now = 1
    /\ \/ /\ \E todo \in RecipientCalls \cup PlainCalls : sender = <<NewSender(todo)>>
          /\ MailAfter(0)
       \/ /\ sender = [s \in Senders |-> NewSender(<<<<Plain>>>>)]
          /\ \E k \in 0..(settings.EMAIL_MAX_TEMP_COUNTER - 1) :
                /\ k <= settings.EMAIL_EMERGENCY_THRESHOLD
                /\ MailAfter(k)
    /\ MergerIdle
    /\ TaskIdle
    /\ CleanIdle

\* The call of sender s ends
EndCall(s, how) ==
    [sender[s] EXCEPT !.pc = "idle", !.todo = Tail(@), !.email_messages = <<>>,
                      !.returns = Append(@, how)]

\* send_messages up to check_emergency_brake
SendMessages ==
    \E s \in DOMAIN sender :
        /\ sender[s].pc = "idle"
        /\ sender[s].todo # <<>>
        /\ LET email_messages == Head(sender[s].todo)
           IN sender' = [sender EXCEPT ![s] =
                            IF email_messages = <<>> THEN EndCall(s, Returns(0))
                            ELSE [@ EXCEPT !.pc = "check_140",
                                           !.email_messages = email_messages]]
        /\ UNCHANGED <<mergerVars, taskVars, cleanVars, settings, redis, now, sent, mail_db>>

\* get_email_count: temp_counter = r.get("email:temp_counter")
GetTempCounter ==
    \E s \in DOMAIN sender :
        /\ sender[s].pc \in {"check_140", "check_193", "incr"}
        /\ sender' = [sender EXCEPT ![s].temp_counter = redis.temp_counter,
                                    ![s].pc = IF @ = "check_140" THEN "count_140"
                                              ELSE IF @ = "check_193" THEN "count_193"
                                              ELSE "pipeline"]
        /\ UNCHANGED <<mergerVars, taskVars, cleanVars, settings, redis, now, sent, mail_db>>

\* check_emergency_brake from get_attempts_in_window on; msg_count = 0 after
\* the check of line 140
CheckEmergencyBrake ==
    \E s \in DOMAIN sender :
        /\ sender[s].pc \in {"count_140", "count_193"}
        /\ LET previous_attempts == GetAttemptsInWindow(redis, now)
               current_email_count ==
                   GetEmailCount(sender[s].temp_counter, previous_attempts.size)
           IN /\ redis' = previous_attempts.redis
              /\ now' = now + 1
              /\ sender' = [sender EXCEPT ![s] =
                    IF current_email_count >= settings.EMAIL_EMERGENCY_THRESHOLD
                    THEN EndCall(s, Raises("ValueError"))
                    ELSE IF @.pc = "count_140" THEN [@ EXCEPT !.pc = "loop", !.msg_count = 0]
                    ELSE [@ EXCEPT !.pc = "send"]]
        /\ UNCHANGED <<mergerVars, taskVars, cleanVars, settings, sent, mail_db>>

\* for email_message in email_messages, up to the check before the send; after
\* the last message the connection is closed and msg_count returned
NextMessage ==
    \E s \in DOMAIN sender :
        /\ sender[s].pc = "loop"
        /\ IF sender[s].email_messages = <<>>
           THEN /\ sender' = [sender EXCEPT ![s] = EndCall(s, Returns(sender[s].msg_count))]
                /\ UNCHANGED mail_db
           ELSE LET to == Head(sender[s].email_messages)
                    recipient_list == RecipientList(to)
                    final_recipient_list == FinalRecipientList(recipient_list)
                    backoff_recipient_list == BackoffRecipientList(recipient_list)
                    stored_id == Len(mail_db.stored) + 1
                IN IF recipient_list = <<>>
                   THEN /\ sender' = [sender EXCEPT ![s].email_messages = Tail(@)]
                        /\ UNCHANGED mail_db
                   ELSE /\ mail_db' =
                             [stored |-> Append(mail_db.stored, [by |-> s, to |-> to]),
                              queue |-> IF backoff_recipient_list # <<>>
                                        THEN Append(mail_db.queue,
                                                    [to |-> backoff_recipient_list,
                                                     stored_id |-> stored_id])
                                        ELSE mail_db.queue]
                        /\ sender' = [sender EXCEPT ![s] =
                              IF final_recipient_list # <<>>
                              THEN [@ EXCEPT !.to = final_recipient_list,
                                             !.stored_id = stored_id, !.pc = "check_193"]
                              ELSE [@ EXCEPT !.email_messages = Tail(@)]]
        /\ UNCHANGED <<mergerVars, taskVars, cleanVars, settings, redis, now, sent>>

\* email.send(): the message is handed to the base backend
Send ==
    \E s \in DOMAIN sender :
        /\ sender[s].pc = "send"
        /\ sent' = Append(sent, [by |-> s, call |-> Len(sender[s].returns) + 1,
                                 to |-> sender[s].to, stored_id |-> sender[s].stored_id])
        /\ sender' = [sender EXCEPT ![s].pc = "incr"]
        /\ UNCHANGED <<mergerVars, taskVars, cleanVars, settings, redis, now, mail_db>>

\* incr_email_temp_counter: pipe.execute(), then msg_count += 1
ExecutePipeline ==
    \E s \in DOMAIN sender :
        /\ sender[s].pc = "pipeline"
        /\ redis' = IncrPipeline(redis, sender[s].temp_counter, now)
        /\ now' = IF ReachesMax(sender[s].temp_counter) THEN now + 1 ELSE now
        /\ sender' = [sender EXCEPT ![s].msg_count = @ + 1, ![s].email_messages = Tail(@),
                                    ![s].pc = "loop"]
        /\ UNCHANGED <<mergerVars, taskVars, cleanVars, settings, sent, mail_db>>

MailNext ==
    \/ SendMessages
    \/ GetTempCounter
    \/ CheckEmergencyBrake
    \/ NextMessage
    \/ Send
    \/ ExecutePipeline

MailSpec == MailInit /\ [][MailNext]_vars

-----------------------------------------------------------------------------
(* C25 *)

\* What get_email_count would return now
EmailCount == GetEmailCount(redis.temp_counter, GetAttemptsInWindow(redis, now).size)

\* The call sender s was in has ended with ValueError
BrakeEngaged(s) ==
    /\ sender'[s].pc = "idle"
    /\ Len(sender'[s].returns) = Len(sender[s].returns) + 1
    /\ sender'[s].returns[Len(sender'[s].returns)] = Raises("ValueError")

\* C25: with a single sender, a message is handed to the base backend only
\* while get_email_count is below EMAIL_EMERGENCY_THRESHOLD; a check that finds
\* it at or above the threshold ends the call with ValueError and nothing
\* handed over; so no more than EMAIL_EMERGENCY_THRESHOLD messages are sent in
\* the window.
C25_EmergencyBrake ==
    [][Len(sender) = 1 =>
          /\ sent' # sent => EmailCount < settings.EMAIL_EMERGENCY_THRESHOLD
          /\ (/\ sender[1].pc \in {"count_140", "count_193"}
              /\ EmailCount >= settings.EMAIL_EMERGENCY_THRESHOLD)
                => (BrakeEngaged(1) /\ sent' = sent)
          /\ Len(sent') <= settings.EMAIL_EMERGENCY_THRESHOLD]_vars

-----------------------------------------------------------------------------
(* C26 *)

\* One sender, and every message it has sent was followed by
\* incr_email_temp_counter
SingleSenderCounted == Len(sender) = 1 /\ sender[1].pc \notin {"incr", "pipeline"}

\* C26: after n sends by a single sender from an absent email:temp_counter,
\* each followed by incr_email_temp_counter, get_email_count is n, whatever
\* EMAIL_MAX_TEMP_COUNTER >= 1 is; the sorted set has one element for each time
\* the counter reached EMAIL_MAX_TEMP_COUNTER and the counter is what was sent
\* since it was last reset to 0.
C26_CountIsNumberSent ==
    SingleSenderCounted =>
        LET n == Len(sent)
            max == settings.EMAIL_MAX_TEMP_COUNTER
        IN /\ EmailCount = n
           /\ Cardinality(redis.delivery_attempts) = n \div max
           /\ redis.temp_counter = IF n = 0 THEN <<>> ELSE <<n % max>>


-----------------------------------------------------------------------------
(* C27 *)

\* C27: with two or more senders at once, get_email_count is the number of
\* emails sent whenever every send has been followed by its
\* incr_email_temp_counter, and no more than EMAIL_EMERGENCY_THRESHOLD emails are
\* sent.
C27_ConcurrentSendersCounted ==
    Len(sender) > 1 =>
        /\ (\A s \in DOMAIN sender : sender[s].pc \notin {"incr", "pipeline"}) =>
              EmailCount = Len(sent)
        /\ Len(sent) <= settings.EMAIL_EMERGENCY_THRESHOLD

-----------------------------------------------------------------------------
(* C28 *)

\* The message sender s is at in its loop
AtMessage(s) == sender[s].pc = "loop" /\ sender[s].email_messages # <<>>

\* The addresses of its recipients that are not banned, those of them that are
\* under a backoff waiting period and those that are not
Allowed(s) ==
    SelectSeq(NormalizeAddresses(Head(sender[s].email_messages)),
              LAMBDA a : a \notin Banned)

Waiting(s) == SelectSeq(Allowed(s), LAMBDA a : a \in Backoff)

Deliverable(s) == SelectSeq(Allowed(s), LAMBDA a : a \notin Backoff)

\* The messages sender s has sent in the call it is in
SentInCall(s) ==
    {i \in 1..Len(sent) : sent[i].by = s /\ sent[i].call = Len(sender[s].returns) + 1}

\* What send_messages does with the message sender s is at, but for the send
Filtered(s) ==
    LET stored_id == Len(mail_db.stored) + 1
    IN /\ sent' = sent
       /\ IF Allowed(s) = <<>>
          THEN /\ mail_db' = mail_db
               /\ sender'[s].pc = "loop"
               /\ sender'[s].email_messages = Tail(sender[s].email_messages)
          ELSE /\ mail_db'.stored =
                     Append(mail_db.stored, [by |-> s, to |-> Head(sender[s].email_messages)])
               /\ mail_db'.queue =
                     IF Waiting(s) = <<>> THEN mail_db.queue
                     ELSE Append(mail_db.queue, [to |-> Waiting(s), stored_id |-> stored_id])
               /\ IF Deliverable(s) = <<>>
                  THEN /\ sender'[s].pc = "loop"
                       /\ sender'[s].email_messages = Tail(sender[s].email_messages)
                  ELSE /\ sender'[s].pc = "check_193"
                       /\ sender'[s].to = Deliverable(s)
                       /\ sender'[s].stored_id = stored_id

\* The message sender s is to send goes to the base backend, to the recipients
\* found deliverable, none of them banned or under a waiting period
Delivered(s) ==
    /\ sent' = Append(sent, [by |-> s, call |-> Len(sender[s].returns) + 1,
                             to |-> Deliverable(s), stored_id |-> sender[s].stored_id])
    /\ \A i \in 1..Len(sent'[Len(sent')].to) :
          sent'[Len(sent')].to[i] \notin Banned \cup Backoff

\* A call that returns, returns the number of messages it has sent
CountReturned(s) ==
    (sender[s].pc # "idle" /\ sender'[s].pc = "idle"
        /\ sender'[s].returns[Len(sender'[s].returns)].raised = "None") =>
            sender'[s].returns[Len(sender'[s].returns)].value = Cardinality(SentInCall(s))

-----------------------------------------------------------------------------
(* cl/users/tasks.py: send_failed_email on one FailedEmail row.  The task is
   queued with send_failed_email.delay(failed_pk); self.retry queues it again
   with one retry more, or raises the exception once max_retries is reached.
   email.send() is a step of its own: it returns, raises one of the two
   botocore exceptions the task catches, or raises another exception. *)

MaxTasks == 2

max_retries == 3

\* STATUS_TYPES of cl.users.models
StatusTypes == {"WAITING", "ENQUEUED", "IN_PROGRESS", "SUCCESSFUL"}

Caught == {"HTTPClientError", "ConnectionError"}

Uncaught == {"ClientError"}

\* Mutant of NotProcessed: the status is not looked at
NotProcessedAny(status) == TRUE

\* if failed_email.status != STATUS_TYPES.SUCCESSFUL
NotProcessed(status) == status # "SUCCESSFUL"

\* The first task for a row of any status
TaskInit ==
    /\ \E status \in StatusTypes : failed_email = [status |-> status]
    /\ task = [pc |-> "queued", retries |-> 0, delayed |-> 1, exc |-> "None"]
    /\ deliveries = <<>>
    /\ MergerIdle
    /\ MailIdle
    /\ CleanIdle

\* send_failed_email up to email.send()
RunTask ==
    /\ task.pc = "queued"
    /\ IF NotProcessed(failed_email.status)
       THEN /\ failed_email' = [failed_email EXCEPT !.status = "IN_PROGRESS"]
            /\ task' = [task EXCEPT !.pc = "send"]
       ELSE /\ task' = [task EXCEPT !.pc = "returned"]
            /\ UNCHANGED failed_email
    /\ UNCHANGED <<mergerVars, mailVars, cleanVars, deliveries>>

\* email.send() returns: the status is saved as SUCCESSFUL
SendReturns ==
    /\ task.pc = "send"
    /\ deliveries' = Append(deliveries, "sent")
    /\ failed_email' = [failed_email EXCEPT !.status = "SUCCESSFUL"]
    /\ task' = [task EXCEPT !.pc = "returned"]
    /\ UNCHANGED <<mergerVars, mailVars, cleanVars>>

\* email.send() raises HTTPClientError or ConnectionError: raise self.retry(exc=exc)
SendRetried ==
    /\ task.pc = "send"
    /\ \E error \in Caught :
          /\ deliveries' = Append(deliveries, error)
          /\ task' = IF task.retries < max_retries
                     THEN [task EXCEPT !.pc = "queued", !.retries = @ + 1]
                     ELSE [task EXCEPT !.pc = "raised", !.exc = error]
    /\ UNCHANGED <<mergerVars, mailVars, cleanVars, failed_email>>

\* email.send() raises another exception: the task ends with it
SendRaises ==
    /\ task.pc = "send"
    /\ \E error \in Uncaught :
          /\ deliveries' = Append(deliveries, error)
          /\ task' = [task EXCEPT !.pc = "raised", !.exc = error]
    /\ UNCHANGED <<mergerVars, mailVars, cleanVars, failed_email>>

\* send_failed_email.delay(failed_pk) once more, after the task has ended
Delay ==
    /\ task.pc \in {"returned", "raised"}
    /\ task.delayed < MaxTasks
    /\ task' = [pc |-> "queued", retries |-> 0, delayed |-> task.delayed + 1, exc |-> "None"]
    /\ UNCHANGED <<mergerVars, mailVars, cleanVars, failed_email, deliveries>>

TaskNext ==
    \/ RunTask
    \/ SendReturns
    \/ SendRetried
    \/ SendRaises
    \/ Delay

TaskSpec == TaskInit /\ [][TaskNext]_vars

-----------------------------------------------------------------------------
(* C29 *)

\* C29: a FailedEmail that is SUCCESSFUL is never sent again and stays as it
\* is; any other has status IN_PROGRESS when email.send() is called, becomes
\* SUCCESSFUL only as email.send() returns, and on HTTPClientError or
\* ConnectionError keeps IN_PROGRESS while the task is queued again with one
\* retry more, never more than max_retries.
C29_SentUnlessSuccessful ==
    [][/\ failed_email.status = "SUCCESSFUL" =>
             failed_email' = failed_email /\ deliveries' = deliveries
       /\ deliveries' # deliveries => failed_email.status = "IN_PROGRESS"
       /\ failed_email'.status = "SUCCESSFUL" /\ failed_email.status # "SUCCESSFUL" =>
             deliveries' = Append(deliveries, "sent")
       /\ (deliveries' # deliveries /\ deliveries'[Len(deliveries')] \in Caught) =>
             /\ failed_email'.status = "IN_PROGRESS"
             /\ IF task.retries < max_retries
                THEN task'.pc = "queued" /\ task'.retries = task.retries + 1
                ELSE task'.pc = "raised"
       /\ task'.retries <= max_retries]_vars

\* The task was retried three times and sent the message at last; the task
\* queued after it sent nothing
C29_Witness ==
    /\ deliveries = <<"HTTPClientError", "ConnectionError", "HTTPClientError", "sent">>
    /\ failed_email.status = "SUCCESSFUL"
    /\ task = [pc |-> "returned", retries |-> 0, delayed |-> 2, exc |-> "None"]

-----------------------------------------------------------------------------
(* cl/recap/management/commands/clean_up_appellate_entries.py.  The store is
   [dockets, docket_entries]: dockets[d] is the row of docket d, docket_entries
   the rows of DocketEntry in the order the querysets return them, each with
   its recap_documents.  A date is a day number; an absent number or date is
   <<>> and a present one <<n>>. *)

NumEntries == 3

PACER_DOCUMENT == 1
ATTACHMENT == 2

\* The entry_number above which a number is taken for a pacer_doc_id
PacerDocIdNumbers == 10000000

default_court_dates == [ca5 |-> <<3>>, ca11 |-> <<2>>]

\* default_court_dates.get(court)
DefaultCourtDate(court) ==
    IF court \in DOMAIN default_court_dates THEN default_court_dates[court] ELSE <<>>

\* Docket.objects.filter(court_id=court, docket_entries__date_created__gte=court_date)
\* .distinct()
DocketWithEntries(store, court, court_date) ==
    LET F[d \in 0..Len(store.dockets)] ==
            IF d = 0 THEN <<>>
            ELSE IF /\ store.dockets[d].court_id = court
                    /\ \E i \in 1..Len(store.docket_entries) :
                          /\ store.docket_entries[i].docket = d
                          /\ store.docket_entries[i].date_created >= court_date
                 THEN Append(F[d - 1], d)
                 ELSE F[d - 1]
    IN F[Len(store.dockets)]

\* Q(entry_number__gt=10_000_000) | Q(entry_number=None and ~Q(description__exact="")):
\* `None and ...` is None, so the second Q is Q(entry_number=None)
Des(store, docket) ==
    SelectSeq(store.docket_entries,
              LAMBDA de : /\ de.docket = docket
                          /\ \/ de.entry_number # <<>> /\ de.entry_number[1] > PacerDocIdNumbers
                             \/ de.entry_number = <<>>)

\* de.recap_documents.filter(document_type=RECAPDocument.PACER_DOCUMENT).first():
\* <<>> for None
RelatedRd(de) ==
    LET main == SelectSeq(de.recap_documents,
                          LAMBDA rd : rd.document_type = PACER_DOCUMENT)
    IN IF main = <<>> THEN <<>> ELSE <<Head(main)>>

\* Mutant of DuplicatedDes: the entry itself is not excluded
DuplicatedDesWithItself(store, de, related_rd) ==
    SelectSeq(store.docket_entries,
              LAMBDA other :
                 /\ other.docket = de.docket
                 /\ IF related_rd.pacer_doc_id = ""
                    THEN /\ other.description = de.description
                         /\ other.date_filed = de.date_filed
                    ELSE \E k \in 1..Len(other.recap_documents) :
                            other.recap_documents[k].pacer_doc_id = related_rd.pacer_doc_id)

\* duplicated_des: by description and date when the pacer_doc_id is empty, by
\* pacer_doc_id otherwise
DuplicatedDes(store, de, related_rd) ==
    SelectSeq(store.docket_entries,
              LAMBDA other :
                 /\ other.docket = de.docket
                 /\ other.pk # de.pk
                 /\ IF related_rd.pacer_doc_id = ""
                    THEN /\ other.description = de.description
                         /\ other.date_filed = de.date_filed
                    ELSE \E k \in 1..Len(other.recap_documents) :
                            other.recap_documents[k].pacer_doc_id = related_rd.pacer_doc_id)

\* de.delete()
Delete(store, de) ==
    [store EXCEPT !.docket_entries = SelectSeq(@, LAMBDA other : other.pk # de.pk)]

\* The body of `for de in des.iterator()`; `progress` holds the store, the count and
\* the list of the court, and the exception raised
ExamineDe(progress, de, clean) ==
    LET related_rd == RelatedRd(de)
    IN IF related_rd = <<>> THEN [progress EXCEPT !.exc = "AttributeError"]
       ELSE IF DuplicatedDes(progress.store, de, related_rd[1]) = <<>> THEN progress
       ELSE [progress EXCEPT !.duplicated_entries_count = @ + 1,
                        !.duplicated_entries = Append(@, de.pk),
                        !.store = IF clean THEN Delete(@, de) ELSE @]

\* for de in des.iterator(), up to an exception
RECURSIVE ExamineDes(_, _, _)
ExamineDes(progress, des, clean) ==
    IF des = <<>> \/ progress.exc # "None" THEN progress
    ELSE ExamineDes(ExamineDe(progress, Head(des), clean), Tail(des), clean)

\* for docket in docket_with_entries.iterator(), up to an exception
RECURSIVE ExamineDockets(_, _, _)
ExamineDockets(progress, dockets, clean) ==
    IF dockets = <<>> \/ progress.exc # "None" THEN progress
    ELSE ExamineDockets(ExamineDes(progress, Des(progress.store, Head(dockets)), clean),
                        Tail(dockets), clean)

\* The progress of one court before its dockets
NewRun(store) ==
    [store |-> store, duplicated_entries_count |-> 0, duplicated_entries |-> <<>>,
     exc |-> "None"]

\* The date the command looks after for a court, <<>> when it has none
CourtDate(court, after_date) ==
    IF after_date # <<>> THEN after_date ELSE DefaultCourtDate(court)

\* A RECAPDocument row
Rd(document_type, pacer_doc_id) ==
    [document_type |-> document_type, pacer_doc_id |-> pacer_doc_id]

\* What a docket entry holds besides its key, docket and creation date: an entry
\* numbered by its pacer_doc_id, the same entry under its own number, unnumbered
\* entries with and without description and filed on two days, a numbered entry
\* without pacer_doc_id, an entry whose main document comes after an attachment,
\* an entry without main document and the entry of a pacer_doc_id under its own
\* number and its own description
EntryKinds ==
    {[entry_number |-> <<PacerDocIdNumbers + 1>>, description |-> "Order", date_filed |-> 1,
      recap_documents |-> <<Rd(PACER_DOCUMENT, "p1")>>],
     [entry_number |-> <<7>>, description |-> "Order", date_filed |-> 1,
      recap_documents |-> <<Rd(PACER_DOCUMENT, "p1")>>],
     [entry_number |-> <<>>, description |-> "Order", date_filed |-> 1,
      recap_documents |-> <<Rd(PACER_DOCUMENT, "")>>],
     [entry_number |-> <<>>, description |-> "Order", date_filed |-> 2,
      recap_documents |-> <<Rd(PACER_DOCUMENT, "")>>],
     [entry_number |-> <<>>, description |-> "", date_filed |-> 1,
      recap_documents |-> <<Rd(PACER_DOCUMENT, "")>>],
     [entry_number |-> <<7>>, description |-> "Order", date_filed |-> 1,
      recap_documents |-> <<Rd(PACER_DOCUMENT, "")>>],
     [entry_number |-> <<PacerDocIdNumbers + 2>>, description |-> "Order", date_filed |-> 1,
      recap_documents |-> <<Rd(ATTACHMENT, "p1"), Rd(PACER_DOCUMENT, "p2")>>],
     [entry_number |-> <<PacerDocIdNumbers + 1>>, description |-> "Order", date_filed |-> 1,
      recap_documents |-> <<>>],
     [entry_number |-> <<7>>, description |-> "Motion", date_filed |-> 1,
      recap_documents |-> <<Rd(PACER_DOCUMENT, "p1")>>]}

DocketEntryRow(pk, docket, date_created, kind) ==
    [pk |-> pk, docket |-> docket, date_created |-> date_created,
     entry_number |-> kind.entry_number, description |-> kind.description,
     date_filed |-> kind.date_filed, recap_documents |-> kind.recap_documents]

\* One docket of ca5 with entries of every kind, created when the court had
\* enabled document numbers
EntryStores ==
    {[dockets |-> <<[court_id |-> "ca5"]>>,
      docket_entries |-> [pk \in 1..Len(kinds) |-> DocketEntryRow(pk, 1, 3, kinds[pk])]] :
        kinds \in SeqsUpTo(EntryKinds, NumEntries)}

\* Two dockets, each with an entry numbered by its pacer_doc_id and the same
\* entry under its own number, of courts with and without default date, created
\* on any day
CourtStores ==
    LET numbered == CHOOSE kind \in EntryKinds :
                        kind.entry_number = <<7>> /\ kind.recap_documents[1].pacer_doc_id = "p1"
        duplicate == CHOOSE kind \in EntryKinds :
                        /\ kind.entry_number = <<PacerDocIdNumbers + 1>>
                        /\ kind.recap_documents # <<>>
    IN {[dockets |-> <<[court_id |-> court], [court_id |-> "cadc"]>>,
         docket_entries |-> <<DocketEntryRow(1, 1, date_created, numbered),
                              DocketEntryRow(2, 1, date_created, duplicate),
                              DocketEntryRow(3, 2, date_created, duplicate),
                              DocketEntryRow(4, 2, date_created, numbered)>>] :
           court \in {"ca5", "ca11"}, date_created \in 1..3}

\* --courts, --after_date
CourtLists == {<<"ca5">>, <<"ca11">>, <<"cadc">>, <<"cadc", "ca5">>}

AfterDates == {<<>>, <<2>>}

\* The command before its first court
NewCleaner(courts_ids, after_date, clean) ==
    [pc |-> "courts", clean |-> clean, courts_ids |-> courts_ids, after_date |-> after_date,
     court |-> "", court_date |-> <<>>, dockets |-> <<>>, des |-> <<>>,
     duplicated_entries_count |-> 0, duplicated_entries |-> <<>>, exc |-> "None",
     logged |-> <<>>]

CleanInit ==
    /\ \E clean \in BOOLEAN :
          \/ /\ entries \in EntryStores
             /\ cleaner = NewCleaner(<<"ca5">>, <<>>, clean)
          \/ /\ entries \in CourtStores
             /\ \E courts_ids \in CourtLists, after_date \in AfterDates :
                   cleaner = NewCleaner(courts_ids, after_date, clean)
    /\ entries0 = entries
    /\ MergerIdle
    /\ MailIdle
    /\ TaskIdle

\* A line of the log, with the list printed before it
Logged(action, count, ids) ==
    [court |-> Head(cleaner.courts_ids), action |-> action, count |-> count, ids |-> ids]

\* for court in courts_ids, up to the loop over the dockets
NextCourt ==
    /\ cleaner.pc = "courts"
    /\ cleaner.courts_ids # <<>>
    /\ LET court == Head(cleaner.courts_ids)
           court_date == CourtDate(court, cleaner.after_date)
           docket_with_entries ==
               IF court_date = <<>> THEN <<>>
               ELSE DocketWithEntries(entries, court, court_date[1])
       IN cleaner' =
             IF court_date = <<>>
             THEN [cleaner EXCEPT !.courts_ids = Tail(@),
                                  !.logged = Append(@, Logged("No default after_date", 0, <<>>))]
             ELSE IF docket_with_entries = <<>>
             THEN [cleaner EXCEPT !.courts_ids = Tail(@),
                                  !.logged = Append(@, Logged("Skipping", 0, <<>>))]
             ELSE [cleaner EXCEPT !.pc = "dockets", !.court = court,
                                  !.court_date = court_date,
                                  !.dockets = docket_with_entries,
                                  !.duplicated_entries_count = 0,
                                  !.duplicated_entries = <<>>]
    /\ UNCHANGED <<mergerVars, mailVars, taskVars, entries, entries0>>

\* for docket in docket_with_entries.iterator(): the entries to look at; after
\* the last docket the list is printed and the count logged
NextDocket ==
    /\ cleaner.pc = "dockets"
    /\ cleaner' =
          IF cleaner.dockets = <<>>
          THEN [cleaner EXCEPT !.pc = "courts", !.courts_ids = Tail(@),
                               !.logged = Append(@,
                                   Logged(IF cleaner.clean THEN "Cleaned" ELSE "Found",
                                          cleaner.duplicated_entries_count,
                                          cleaner.duplicated_entries))]
          ELSE [cleaner EXCEPT !.pc = "des", !.dockets = Tail(@),
                               !.des = Des(entries, Head(cleaner.dockets))]
    /\ UNCHANGED <<mergerVars, mailVars, taskVars, entries, entries0>>

\* for de in des.iterator()
NextDe ==
    /\ cleaner.pc = "des"
    /\ IF cleaner.des = <<>>
       THEN /\ cleaner' = [cleaner EXCEPT !.pc = "dockets"]
            /\ UNCHANGED entries
       ELSE LET progress ==
                   ExamineDe([store |-> entries,
                              duplicated_entries_count |-> cleaner.duplicated_entries_count,
                              duplicated_entries |-> cleaner.duplicated_entries,
                              exc |-> "None"],
                             Head(cleaner.des), cleaner.clean)
            IN /\ entries' = progress.store
               /\ cleaner' =
                     [cleaner EXCEPT !.des = Tail(@),
                                     !.duplicated_entries_count =
                                         progress.duplicated_entries_count,
                                     !.duplicated_entries = progress.duplicated_entries,
                                     !.exc = progress.exc,
                                     !.pc = IF progress.exc # "None" THEN "raised" ELSE @]
    /\ UNCHANGED <<mergerVars, mailVars, taskVars, entries0>>

\* After the last court
CleanUpReturns ==
    /\ cleaner.pc = "courts"
    /\ cleaner.courts_ids = <<>>
    /\ cleaner' = [cleaner EXCEPT !.pc = "done"]
    /\ UNCHANGED <<mergerVars, mailVars, taskVars, entries, entries0>>

CleanNext ==
    \/ NextCourt
    \/ NextDocket
    \/ NextDe
    \/ CleanUpReturns

CleanSpec == CleanInit /\ [][CleanNext]_vars

-----------------------------------------------------------------------------
(* C30 *)

\* The keys of the entries a run with clean=True on `court` deletes from the
\* store the run started from, in the order of the store
DeletedByCleanRun(court) ==
    LET court_date == CourtDate(court, cleaner.after_date)
        after == ExamineDockets(NewRun(entries0),
                                DocketWithEntries(entries0, court, court_date[1]), TRUE)
        left == {after.store.docket_entries[i].pk : i \in 1..Len(after.store.docket_entries)}
        F[i \in 0..Len(entries0.docket_entries)] ==
            IF i = 0 THEN <<>>
            ELSE IF entries0.docket_entries[i].pk \in left THEN F[i - 1]
            ELSE Append(F[i - 1], entries0.docket_entries[i].pk)
    IN F[Len(entries0.docket_entries)]

\* C30: a run with clean=False deletes nothing, and the count it logs for a
\* court and the list it prints are the number and the keys of the entries a run
\* with clean=True deletes from the same store.
C30_DryRunReportsWhatIsCleaned ==
    ~cleaner.clean =>
        /\ entries = entries0
        /\ \A i \in 1..Len(cleaner.logged) :
              cleaner.logged[i].action = "Found" =>
                  /\ cleaner.logged[i].count = Len(DeletedByCleanRun(cleaner.logged[i].court))
                  /\ cleaner.logged[i].ids = DeletedByCleanRun(cleaner.logged[i].court)

-----------------------------------------------------------------------------
(* C31 *)

\* The rows of a store, as a set
RowsOf(store) == {store.docket_entries[i] : i \in 1..Len(store.docket_entries)}

\* The pacer_doc_id of the main document of an entry that has one
MainDocId(de) == RelatedRd(de)[1].pacer_doc_id

\* `other` is of the group of `de`: an entry of its docket with its pacer_doc_id
\* or, when that is empty, with its description and date_filed
SameGroup(de, other) ==
    /\ other.docket = de.docket
    /\ IF MainDocId(de) # ""
       THEN \E k \in 1..Len(other.recap_documents) :
               other.recap_documents[k].pacer_doc_id = MainDocId(de)
       ELSE other.description = de.description /\ other.date_filed = de.date_filed

\* An entry is deleted only when another entry of its group exists at that moment
DeletedOnlyWithDuplicate ==
    [][cleaner.clean =>
          \A de \in RowsOf(entries) \ RowsOf(entries') :
              \E other \in RowsOf(entries') : other.pk # de.pk /\ SameGroup(de, other)]_vars

\* C31: a run with clean=True deletes an entry only when another entry of its
\* group exists at that moment, and leaves at least one entry of every group of
\* the store it started from.
C31_OneCopyKept ==
    [][cleaner.clean =>
          /\ \A de \in RowsOf(entries) \ RowsOf(entries') :
                \E other \in RowsOf(entries) : other.pk # de.pk /\ SameGroup(de, other)
          /\ \A de \in RowsOf(entries0) :
                RelatedRd(de) # <<>> =>
                    \E other \in RowsOf(entries') : SameGroup(de, other)]_vars

====
